------------------------ MODULE BatteryShutdownProofs ------------------------
(***************************************************************************)
(* Theorems about BatteryShutdown, for any conf, any battery and any       *)
(* bounds.  All but type correctness assume that the service is the only   *)
(* copy of the script: a --test run shares the locks and breaks them.      *)
(***************************************************************************)
EXTENDS BatteryShutdown, TLAPS

Walking == {"walk"} \cup Pending

\* A copy that works on a node has one.
Positioned ==
  \A p \in Procs : /\ pc[p] \in Pending => HasNode(p)
                   /\ pc[p] = "walk" => at[p] \in 1 .. Len(Nodes) + 1

DataType ==
  /\ mains \in BOOLEAN
  /\ charge \in 0 .. MaxCharge
  /\ upsd \in {"answers", "silent", "other"}
  /\ locks \subseteq Keys
  /\ fires \in [Names -> Nat]
  /\ sent \subseteq Names
  /\ lowest \in 0 .. MaxCharge
  /\ restarts \in Nat
  /\ outages \in Nat

ScriptType ==
  /\ pc \in [Procs -> Places]
  /\ status \in [Procs -> {"none", "OL", "OB", "other"}]
  /\ reading \in [Procs -> Readings]
  /\ at \in [Procs -> 0 .. Len(Nodes) + 1]
  /\ Positioned

TypeInv == DataType /\ ScriptType

USE DEF Places, Pending, Readings, NoReading

\* The length of the list is a natural number.
LEMMA LenNodes == Len(Nodes) \in Nat
  BY ConfAssumption

\* Going back to the head of the loop keeps the script well typed.
LEMMA EndPassType ==
  ASSUME NEW p \in Procs, ScriptType, EndPass(p)  PROVE ScriptType'
  BY ConfAssumption, LenNodes
  DEF ScriptType, EndPass, Forget, Goto, Positioned, HasNode

\* So does the end of the script.
LEMMA QuitType ==
  ASSUME NEW p \in Procs, ScriptType, Quit(p)  PROVE ScriptType'
  BY ConfAssumption, LenNodes
  DEF ScriptType, Quit, Forget, Goto, Positioned, HasNode

\* So does moving on from a node in the list.
LEMMA NextNodeType ==
  ASSUME NEW p \in Procs, ScriptType, HasNode(p), NextNode(p)  PROVE ScriptType'
  BY ConfAssumption, LenNodes
  DEF ScriptType, NextNode, Goto, Positioned, HasNode

\* A step that only moves on within the pass.
LEMMA GotoType ==
  ASSUME NEW p \in Procs, ScriptType, NEW place \in Places,
         place \in Pending => HasNode(p), place # "walk",
         Goto(p, place), UNCHANGED <<status, reading, at>>
  PROVE ScriptType'
  BY ConfAssumption, LenNodes DEF ScriptType, Goto, Positioned, HasNode

\* A copy that works on a node has a name and a key for it.
LEMMA NodeType ==
  ASSUME NEW p \in Procs, HasNode(p)
  PROVE  NodeOf(p) \in Names /\ KeyOf(p) \in Keys
  BY ConfAssumption, LenNodes DEF HasNode, NodeOf, KeyOf

\* The UPS and upsd keep the type invariant.
LEMMA EnvironmentType == TypeInv /\ Environment => TypeInv'
<1> SUFFICES ASSUME TypeInv, Environment PROVE TypeInv'
  OBVIOUS
<1>1. UNCHANGED <<pc, status, reading, at>>
  BY DEF Environment, LoseMains, RestoreMains, Drain, Recharge, UpsdChanges, script
<1>2. ScriptType'
  BY <1>1 DEF TypeInv, ScriptType, Positioned, HasNode
<1>3. DataType'
  <2> USE ConfAssumption DEF TypeInv, DataType, history
  <2>1. CASE LoseMains
    <3>1. mains' \in BOOLEAN
      BY <2>1, Zenon DEF LoseMains
    <3>2. fires' \in [Names -> Nat] /\ restarts' \in Nat /\ outages' \in Nat
      BY <2>1 DEF LoseMains
    <3>3. QED
      BY <2>1, <3>1, <3>2 DEF LoseMains
  <2>2. CASE RestoreMains
    BY <2>2 DEF RestoreMains
  <2>3. CASE Drain
    BY <2>3 DEF Drain
  <2>4. CASE Recharge
    BY <2>4 DEF Recharge
  <2>5. CASE UpsdChanges
    BY <2>5 DEF UpsdChanges
  <2>6. QED
    BY <2>1, <2>2, <2>3, <2>4, <2>5 DEF Environment
<1>4. QED
  BY <1>2, <1>3 DEF TypeInv

\* Every variable keeps its type, with any number of dry runs beside the service.
LEMMA TypeInvariant == Spec => []TypeInv
<1>1. Init => TypeInv
  BY ConfAssumption, LenNodes
  DEF Init, TypeInv, DataType, ScriptType, Positioned, HasNode
<1>2. TypeInv /\ [Next]_vars => TypeInv'
  <2> SUFFICES ASSUME TypeInv, [Next]_vars PROVE TypeInv'
    OBVIOUS
  <2> USE DEF TypeInv
  <2>1. CASE Environment
    BY <2>1, EnvironmentType
  <2>2. ASSUME NEW p \in Procs, Script(p) PROVE TypeInv'
    <3> USE ConfAssumption, LenNodes
    <3>1. CASE Start(p)
      BY <3>1, GotoType DEF Start, DataType, env, history
    <3>2. CASE Stop(p)
      <4>1. ScriptType'
        BY <3>2, QuitType DEF Stop
      <4>2. DataType'
        BY <3>2 DEF Stop, DataType, env, history
      <4>3. QED
        BY <4>1, <4>2
    <3>3. CASE ReadStatus(p)
      BY <3>3 DEF ReadStatus, StatusNow, Goto, env, history, DataType, ScriptType, Positioned, HasNode
    <3>4. CASE ReadCharge(p)
      BY <3>4 DEF ReadCharge, Goto, env, history, DataType, ScriptType, Positioned, HasNode
    <3>5. CASE IgnorePoll(p)
      BY <3>5, EndPassType DEF IgnorePoll, DataType, env, history
    <3>6. CASE ClearLocks(p)
      <4>1. ScriptType'
        BY <3>6, EndPassType, GotoType DEF ClearLocks
      <4>2. DataType'
        BY <3>6 DEF ClearLocks, DataType, env
      <4>3. QED
        BY <4>1, <4>2
    <3>7. CASE StartWalk(p)
      BY <3>7 DEF StartWalk, Goto, env, history, DataType, ScriptType, Positioned, HasNode
    <3>8. CASE FinishWalk(p)
      BY <3>8, EndPassType DEF FinishWalk, DataType, env, history
    <3>9. CASE SkipNode(p)
      BY <3>9, NextNodeType DEF SkipNode, DataType, env, history
    <3>10. CASE CommitNode(p)
      <4>1. ScriptType'
        BY <3>10, GotoType DEF CommitNode
      <4>2. DataType'
        BY <3>10, NodeType DEF CommitNode, DataType, env, history
      <4>3. QED
        BY <4>1, <4>2
    <3>11. CASE AlertSent(p)
      <4>1. HasNode(p)
        BY <3>11 DEF AlertSent, ScriptType, Positioned
      <4>2. QED
        BY <3>11, <4>1, GotoType DEF AlertSent, DataType, env, history
    <3>12. CASE DelayOver(p)
      <4>1. HasNode(p)
        BY <3>12 DEF DelayOver, ScriptType, Positioned
      <4>2. QED
        BY <3>12, <4>1, GotoType DEF DelayOver, DataType, env, history
    <3>13. CASE Send(p)
      <4>1. HasNode(p)
        BY <3>13 DEF Send, ScriptType, Positioned
      <4>2. ScriptType'
        BY <3>13, <4>1, NextNodeType, GotoType DEF Send
      <4>3. DataType'
        <5>1. CASE DryRun(p)
          BY <3>13, <5>1 DEF Send, DataType, env, history
        <5>2. CASE ~DryRun(p)
          BY <3>13, <4>1, <5>2, NodeType DEF Send, DataType, env, history
        <5>3. QED
          BY <5>1, <5>2
      <4>4. QED
        BY <4>2, <4>3
    <3>14. CASE SshReturns(p)
      <4>1. HasNode(p)
        BY <3>14 DEF SshReturns, ScriptType, Positioned
      <4>2. ScriptType'
        BY <3>14, <4>1, NextNodeType, GotoType DEF SshReturns
      <4>3. DataType'
        BY <3>14 DEF SshReturns, DataType, env, history
      <4>4. QED
        BY <4>2, <4>3
    <3>15. CASE ReportSent(p)
      <4>1. ScriptType'
        BY <3>15, NextNodeType, EndPassType DEF ReportSent, ScriptType, Positioned
      <4>2. DataType'
        BY <3>15 DEF ReportSent, DataType, env, history
      <4>3. QED
        BY <4>1, <4>2
    <3>16. CASE TouchFails(p)
      BY <3>16, QuitType DEF TouchFails, DataType, env, history
    <3>17. QED
      BY <2>2, <3>1, <3>2, <3>3, <3>4, <3>5, <3>6, <3>7, <3>8, <3>9, <3>10,
         <3>11, <3>12, <3>13, <3>14, <3>15, <3>16
      DEF Script, Local, Slack
  <2>3. CASE UNCHANGED vars
    BY <2>3 DEF vars, env, script, history, DataType, ScriptType, Positioned, HasNode
  <2>4. QED
    BY <2>1, <2>2, <2>3 DEF Next
<1>3. QED
  BY <1>1, <1>2, PTL DEF Spec

\* Every reachable state is well typed, with any number of nodes and of copies of
\* the script.
THEOREM TypeCorrect == Spec => []TypeOK
<1>1. TypeInv => TypeOK
  BY DEF TypeInv, TypeOK, DataType, ScriptType
<1>2. QED
  BY <1>1, TypeInvariant, PTL

-----------------------------------------------------------------------------
(* The service alone: what one copy of the script preserves.               *)

\* Within a pass over the nodes the script holds a reading taken on battery, the
\* lock of the node it works on, and the locks of all crossed nodes it has passed.
PassInv ==
  /\ pc[Live] \in Walking =>
       /\ status[Live] = "OB" /\ reading[Live].form # "empty"
       /\ \A i \in 1 .. (at[Live] - 1) :
            Crossed(reading[Live], Nodes[i]) => Key[Nodes[i]] \in locks
  /\ pc[Live] \in Pending =>
       KeyOf(Live) \in locks /\ Crossed(reading[Live], NodeOf(Live))

\* A node may still be fired only while it has a command left in this outage:
\* its lock is missing on battery, it is being worked on, or a stale "OL" is
\* about to remove its lock.
BudgetInv ==
  \A n \in Names :
    /\ fires[n] <= 1 + restarts
    /\ Key[n] \notin locks /\ (~mains \/ status[Live] = "OB") => fires[n] <= restarts
    /\ PendingNode(Live, n) => fires[n] <= restarts
    /\ status[Live] = "OL" /\ ~mains => fires[n] <= restarts

\* The directory is there whenever the service walks.
LEMMA NoTouchFails == ~TouchFails(Live)
  BY DEF TouchFails, HasLockDir

\* Moving on from a node that is done keeps the facts of the pass.
LEMMA NextNodePass ==
  ASSUME TypeInv, PassInv, pc[Live] \in Pending, NextNode(Live), locks' = locks
  PROVE  PassInv'
  BY ConfAssumption, LenNodes
  DEF TypeInv, ScriptType, Positioned, PassInv, Walking, HasNode, KeyOf, NodeOf,
      Crossed, NextNode, Goto

\* While no other copy of the script runs, every step keeps the facts of the pass.
LEMMA PassStep == Procs = {Live} /\ TypeInv /\ PassInv /\ [Next]_vars => PassInv'
<1> SUFFICES ASSUME Procs = {Live}, TypeInv, PassInv, [Next]_vars PROVE PassInv'
  OBVIOUS
<1> USE ConfAssumption, LenNodes DEF TypeInv, DataType, ScriptType, Positioned, PassInv, Walking, HasNode, KeyOf, NodeOf, Crossed
<1>1. CASE LoseMains
  BY <1>1 DEF LoseMains, script, history
<1>2. CASE RestoreMains
  BY <1>2 DEF RestoreMains, script, history
<1>3. CASE Drain
  BY <1>3 DEF Drain, script, history
<1>4. CASE Recharge
  BY <1>4 DEF Recharge, script, history
<1>5. CASE UpsdChanges
  BY <1>5 DEF UpsdChanges, script, history
<1>6. CASE Start(Live)
  BY <1>6 DEF Start, Goto, env, history
<1>7. CASE Stop(Live)
  BY <1>7 DEF Stop, Quit, Forget, DryRun, Goto, env, history
<1>8. CASE ReadStatus(Live)
  BY <1>8 DEF ReadStatus, StatusNow, Goto, env, history
<1>9. CASE ReadCharge(Live)
  BY <1>9 DEF ReadCharge, Goto, env, history
<1>10. CASE IgnorePoll(Live)
  BY <1>10 DEF IgnorePoll, EndPass, Forget, Goto, env, history
<1>11. CASE ClearLocks(Live)
  BY <1>11 DEF ClearLocks, HasData, EndPass, Forget, Goto, env
<1>12. CASE StartWalk(Live)
  BY <1>12 DEF StartWalk, HasData, Goto, env, history
<1>13. CASE FinishWalk(Live)
  BY <1>13 DEF FinishWalk, EndPass, Forget, Goto, env, history
<1>14. CASE SkipNode(Live)
  BY <1>14 DEF SkipNode, NextNode, Goto, env, history
<1>15. CASE CommitNode(Live)
  BY <1>15 DEF CommitNode, Goto, env, history
<1>16. CASE AlertSent(Live)
  BY <1>16 DEF AlertSent, Goto, env, history
<1>17. CASE DelayOver(Live)
  BY <1>17 DEF DelayOver, Goto, env, history
<1>18. CASE Send(Live)
  <2>1. CASE DryRun(Live)
    BY <2>1 DEF DryRun
  <2>2. CASE ~DryRun(Live)
    BY <1>18, <2>2 DEF Send, Goto, env
  <2>3. QED
    BY <2>1, <2>2
<1>19. CASE SshReturns(Live)
  <2>1. CASE NextNode(Live)
    BY <1>19, <2>1, NextNodePass DEF SshReturns
  <2>2. CASE ~NextNode(Live)
    BY <1>19, <2>2 DEF SshReturns, Goto, env, history
  <2>3. QED
    BY <2>1, <2>2
<1>20. CASE ReportSent(Live)
  <2>1. CASE pc[Live] = "alertFail"
    BY <1>20, <2>1, NextNodePass DEF ReportSent
  <2>2. CASE pc[Live] = "alertOL"
    BY <1>20, <2>2 DEF ReportSent, EndPass, Forget, Goto, env, history
  <2>3. QED
    BY <1>20, <2>1, <2>2 DEF ReportSent
<1>21. CASE UNCHANGED vars
  BY <1>21 DEF vars, env, script, history
<1>22. QED
  BY NoTouchFails, <1>1, <1>2, <1>3, <1>4, <1>5, <1>6, <1>7, <1>8, <1>9,
     <1>10, <1>11, <1>12, <1>13, <1>14, <1>15, <1>16, <1>17, <1>18,
     <1>19, <1>20, <1>21
  DEF Next, Environment, Script, Local, Slack

\* Every step keeps the budget: only a restart or a new outage makes room for a
\* command, and removing a lock on mains does not.
LEMMA BudgetStep ==
  Procs = {Live} /\ TypeInv /\ PassInv /\ BudgetInv /\ [Next]_vars => BudgetInv'
<1> SUFFICES ASSUME Procs = {Live}, TypeInv, PassInv, BudgetInv, [Next]_vars PROVE BudgetInv'
  OBVIOUS
<1> USE ConfAssumption, LenNodes DEF TypeInv, DataType, ScriptType, Positioned, PassInv, BudgetInv, Walking, HasNode, KeyOf, NodeOf, PendingNode
<1>1. CASE LoseMains
  BY <1>1 DEF LoseMains, script, history
<1>2. CASE RestoreMains
  BY <1>2 DEF RestoreMains, script, history
<1>3. CASE Drain
  BY <1>3 DEF Drain, script, history
<1>4. CASE Recharge
  BY <1>4 DEF Recharge, script, history
<1>5. CASE UpsdChanges
  BY <1>5 DEF UpsdChanges, script, history
<1>6. CASE Start(Live)
  BY <1>6 DEF Start, Goto, env, history
<1>7. CASE Stop(Live)
  BY <1>7 DEF Stop, Quit, Forget, DryRun, Goto, env, history
<1>8. CASE ReadStatus(Live)
  BY <1>8 DEF ReadStatus, StatusNow, Goto, env, history
<1>9. CASE ReadCharge(Live)
  BY <1>9 DEF ReadCharge, Goto, env, history
<1>10. CASE IgnorePoll(Live)
  BY <1>10 DEF IgnorePoll, EndPass, Forget, Goto, env, history
<1>11. CASE ClearLocks(Live)
  BY <1>11 DEF ClearLocks, HasData, EndPass, Forget, Goto, env
<1>12. CASE StartWalk(Live)
  BY <1>12 DEF StartWalk, HasData, Goto, env, history
<1>13. CASE FinishWalk(Live)
  BY <1>13 DEF FinishWalk, EndPass, Forget, Goto, env, history
<1>14. CASE SkipNode(Live)
  BY <1>14 DEF SkipNode, NextNode, Goto, env, history
<1>15. CASE CommitNode(Live)
  BY <1>15 DEF CommitNode, Goto, env, history
<1>16. CASE AlertSent(Live)
  BY <1>16 DEF AlertSent, Goto, env, history
<1>17. CASE DelayOver(Live)
  BY <1>17 DEF DelayOver, Goto, env, history
<1>18. CASE Send(Live)
  <2>1. ~DryRun(Live) /\ pc[Live] = "send" /\ pc' = [pc EXCEPT ![Live] = "ssh"]
    BY <1>18 DEF Send, DryRun, Goto
  <2>2. fires' = [fires EXCEPT ![NodeOf(Live)] = @ + 1]
    BY <1>18, <2>1 DEF Send
  <2>3. UNCHANGED <<mains, locks, restarts, status, at>>
    BY <1>18, <2>1 DEF Send, env
  <2>4. NodeOf(Live) \in Names /\ fires[NodeOf(Live)] <= restarts
    BY <2>1, NodeType
  <2>5. Key[NodeOf(Live)] \in locks /\ status[Live] = "OB"
    BY <2>1
  <2>6. QED
    BY <2>1, <2>2, <2>3, <2>4, <2>5
<1>19. CASE SshReturns(Live)
  BY <1>19 DEF SshReturns, NextNode, Goto, env, history
<1>20. CASE ReportSent(Live)
  BY <1>20 DEF ReportSent, NextNode, EndPass, Forget, Goto, env, history
<1>21. CASE UNCHANGED vars
  BY <1>21 DEF vars, env, script, history
<1>22. QED
  BY NoTouchFails, <1>1, <1>2, <1>3, <1>4, <1>5, <1>6, <1>7, <1>8, <1>9,
     <1>10, <1>11, <1>12, <1>13, <1>14, <1>15, <1>16, <1>17, <1>18,
     <1>19, <1>20, <1>21
  DEF Next, Environment, Script, Local, Slack

\* Every step keeps the stages in order: a lock is only taken behind the locks of
\* all earlier stages, since they too have crossed the reading of the pass.
LEMMA StagedStep ==
  Procs = {Live} /\ TypeInv /\ PassInv /\ StagedOrder /\ [Next]_vars => StagedOrder'
<1> SUFFICES ASSUME Procs = {Live}, TypeInv, PassInv, StagedOrder, [Next]_vars PROVE StagedOrder'
  OBVIOUS
<1> USE ConfAssumption, LenNodes DEF TypeInv, DataType, ScriptType, Positioned, PassInv, StagedOrder, Walking, HasNode, KeyOf, NodeOf, Crossed
<1>1. CASE LoseMains
  BY <1>1 DEF LoseMains, script, history
<1>2. CASE RestoreMains
  BY <1>2 DEF RestoreMains, script, history
<1>3. CASE Drain
  BY <1>3 DEF Drain, script, history
<1>4. CASE Recharge
  BY <1>4 DEF Recharge, script, history
<1>5. CASE UpsdChanges
  BY <1>5 DEF UpsdChanges, script, history
<1>6. CASE Start(Live)
  BY <1>6 DEF Start, Goto, env, history
<1>7. CASE Stop(Live)
  BY <1>7 DEF Stop, Quit, Forget, DryRun, Goto, env, history
<1>8. CASE ReadStatus(Live)
  BY <1>8 DEF ReadStatus, StatusNow, Goto, env, history
<1>9. CASE ReadCharge(Live)
  BY <1>9 DEF ReadCharge, Goto, env, history
<1>10. CASE IgnorePoll(Live)
  BY <1>10 DEF IgnorePoll, EndPass, Forget, Goto, env, history
<1>11. CASE ClearLocks(Live)
  BY <1>11 DEF ClearLocks, HasData, EndPass, Forget, Goto, env
<1>12. CASE StartWalk(Live)
  BY <1>12 DEF StartWalk, HasData, Goto, env, history
<1>13. CASE FinishWalk(Live)
  BY <1>13 DEF FinishWalk, EndPass, Forget, Goto, env, history
<1>14. CASE SkipNode(Live)
  BY <1>14 DEF SkipNode, NextNode, Goto, env, history
<1>15. CASE CommitNode(Live)
  <2>1. HasNode(Live) /\ Crossed(reading[Live], NodeOf(Live)) /\ pc[Live] = "walk"
    BY <1>15 DEF CommitNode
  <2>2. locks' = locks \cup {KeyOf(Live)}
    BY <1>15 DEF CommitNode
  <2>3. SUFFICES ASSUME NEW j \in 1 .. Len(Nodes), NEW i \in 1 .. (j - 1),
                        Threshold[Key[Nodes[i]]] >= Threshold[Key[Nodes[j]]],
                        \A m \in 1 .. (j - 1) : Key[Nodes[m]] # Key[Nodes[j]],
                        Key[Nodes[j]] \in locks'
                 PROVE  Key[Nodes[i]] \in locks'
    OBVIOUS
  <2>4. CASE Key[Nodes[j]] \in locks
    BY <2>2, <2>3, <2>4
  <2>5. CASE Key[Nodes[j]] = KeyOf(Live)
    <3>1. at[Live] >= j
      BY <2>1, <2>3, <2>5
    <3>2. /\ reading[Live].value \in Nat
          /\ Threshold[Key[Nodes[i]]] \in Nat /\ Threshold[Key[Nodes[j]]] \in Nat
      BY <2>3
    <3>3. Crossed(reading[Live], Nodes[i])
      BY <2>1, <2>3, <2>5, <3>2
    <3>4. QED
      BY <2>1, <2>2, <3>1, <3>3
  <2>6. QED
    BY <2>2, <2>3, <2>4, <2>5
<1>16. CASE AlertSent(Live)
  BY <1>16 DEF AlertSent, Goto, env, history
<1>17. CASE DelayOver(Live)
  BY <1>17 DEF DelayOver, Goto, env, history
<1>18. CASE Send(Live)
  BY <1>18 DEF Send, NextNode, Goto, env, history
<1>19. CASE SshReturns(Live)
  BY <1>19 DEF SshReturns, NextNode, Goto, env, history
<1>20. CASE ReportSent(Live)
  BY <1>20 DEF ReportSent, NextNode, EndPass, Forget, Goto, env, history
<1>21. CASE UNCHANGED vars
  BY <1>21 DEF vars, env, script, history
<1>22. QED
  BY NoTouchFails, <1>1, <1>2, <1>3, <1>4, <1>5, <1>6, <1>7, <1>8, <1>9,
     <1>10, <1>11, <1>12, <1>13, <1>14, <1>15, <1>16, <1>17, <1>18,
     <1>19, <1>20, <1>21
  DEF Next, Environment, Script, Local, Slack

\* No two entries share a lock: validated inventories do not guarantee it.
OneLockEach ==
  \A i, j \in 1 .. Len(Nodes) : Key[Nodes[i]] = Key[Nodes[j]] => Nodes[i] = Nodes[j]

\* Every step keeps a lock evidence of a command.
LEMMA LockedStep ==
  Procs = {Live} /\ OneLockEach /\ TypeInv /\ LockedMeansFired /\ [Next]_vars
    => LockedMeansFired'
<1> SUFFICES ASSUME Procs = {Live}, OneLockEach, TypeInv, LockedMeansFired, [Next]_vars PROVE LockedMeansFired'
  OBVIOUS
<1> USE ConfAssumption, LenNodes DEF OneLockEach, TypeInv, DataType, ScriptType, Positioned, LockedMeansFired, PendingNode, HasNode, KeyOf, NodeOf
<1>1. CASE LoseMains
  BY <1>1 DEF LoseMains, script, history
<1>2. CASE RestoreMains
  BY <1>2 DEF RestoreMains, script, history
<1>3. CASE Drain
  BY <1>3 DEF Drain, script, history
<1>4. CASE Recharge
  BY <1>4 DEF Recharge, script, history
<1>5. CASE UpsdChanges
  BY <1>5 DEF UpsdChanges, script, history
<1>6. CASE Start(Live)
  BY <1>6 DEF Start, Goto, env, history
<1>7. CASE Stop(Live)
  BY <1>7 DEF Stop, Quit, Forget, DryRun, Goto, env, history
<1>8. CASE ReadStatus(Live)
  BY <1>8 DEF ReadStatus, StatusNow, Goto, env, history
<1>9. CASE ReadCharge(Live)
  BY <1>9 DEF ReadCharge, Goto, env, history
<1>10. CASE IgnorePoll(Live)
  BY <1>10 DEF IgnorePoll, EndPass, Forget, Goto, env, history
<1>11. CASE ClearLocks(Live)
  BY <1>11 DEF ClearLocks, HasData, EndPass, Forget, Goto, env
<1>12. CASE StartWalk(Live)
  BY <1>12 DEF StartWalk, HasData, Goto, env, history
<1>13. CASE FinishWalk(Live)
  BY <1>13 DEF FinishWalk, EndPass, Forget, Goto, env, history
<1>14. CASE SkipNode(Live)
  BY <1>14 DEF SkipNode, NextNode, Goto, env, history
<1>15. CASE CommitNode(Live)
  BY <1>15 DEF CommitNode, Goto, env, history
<1>16. CASE AlertSent(Live)
  BY <1>16 DEF AlertSent, Goto, env, history
<1>17. CASE DelayOver(Live)
  BY <1>17 DEF DelayOver, Goto, env, history
<1>18. CASE Send(Live)
  <2>1. ~DryRun(Live) /\ pc[Live] = "send" /\ pc' = [pc EXCEPT ![Live] = "ssh"]
    BY <1>18 DEF Send, DryRun, Goto
  <2>2. sent' = sent \cup {NodeOf(Live)} /\ NodeOf(Live) \in Names
    BY <1>18, <2>1, NodeType DEF Send
  <2>3. UNCHANGED <<locks, lowest, charge, reading, status, at>>
    BY <1>18, <2>1 DEF Send, env
  <2>4. QED
    BY <2>1, <2>2, <2>3
<1>19. CASE SshReturns(Live)
  BY <1>19 DEF SshReturns, NextNode, Goto, env, history
<1>20. CASE ReportSent(Live)
  BY <1>20 DEF ReportSent, NextNode, EndPass, Forget, Goto, env, history
<1>21. CASE UNCHANGED vars
  BY <1>21 DEF vars, env, script, history
<1>22. QED
  BY NoTouchFails, <1>1, <1>2, <1>3, <1>4, <1>5, <1>6, <1>7, <1>8, <1>9,
     <1>10, <1>11, <1>12, <1>13, <1>14, <1>15, <1>16, <1>17, <1>18,
     <1>19, <1>20, <1>21
  DEF Next, Environment, Script, Local, Slack

\* Every reading in use was true of the battery at some moment since LOCK_DIR was
\* last emptied.
ChargeInv ==
  /\ lowest <= charge
  /\ pc[Live] \in {"decide"} \cup Walking =>
       /\ reading[Live].form \in {"integer", "empty"}
       /\ reading[Live].form = "integer" => lowest <= reading[Live].value
  /\ FiredOnlyBelowThreshold

\* Every step keeps the commands below the threshold.
LEMMA ChargeStep ==
  Procs = {Live} /\ Forms = {"integer"} /\ TypeInv /\ PassInv /\ ChargeInv /\ [Next]_vars
    => ChargeInv'
<1> SUFFICES ASSUME Procs = {Live}, Forms = {"integer"}, TypeInv, PassInv, ChargeInv, [Next]_vars PROVE ChargeInv'
  OBVIOUS
<1> USE ConfAssumption, LenNodes DEF TypeInv, DataType, ScriptType, Positioned, PassInv, ChargeInv, FiredOnlyBelowThreshold, Walking, HasNode, KeyOf, NodeOf, Crossed
<1>1. CASE LoseMains
  BY <1>1 DEF LoseMains, script, history
<1>2. CASE RestoreMains
  BY <1>2 DEF RestoreMains, script, history
<1>3. CASE Drain
  BY <1>3 DEF Drain, script, history
<1>4. CASE Recharge
  BY <1>4 DEF Recharge, script, history
<1>5. CASE UpsdChanges
  BY <1>5 DEF UpsdChanges, script, history
<1>6. CASE Start(Live)
  BY <1>6 DEF Start, Goto, env, history
<1>7. CASE Stop(Live)
  BY <1>7 DEF Stop, Quit, Forget, DryRun, Goto, env, history
<1>8. CASE ReadStatus(Live)
  BY <1>8 DEF ReadStatus, StatusNow, Goto, env, history
<1>9. CASE ReadCharge(Live)
  BY <1>9 DEF ReadCharge, Goto, env, history
<1>10. CASE IgnorePoll(Live)
  BY <1>10 DEF IgnorePoll, EndPass, Forget, Goto, env, history
<1>11. CASE ClearLocks(Live)
  BY <1>11 DEF ClearLocks, HasData, EndPass, Forget, Goto, env
<1>12. CASE StartWalk(Live)
  BY <1>12 DEF StartWalk, HasData, Goto, env, history
<1>13. CASE FinishWalk(Live)
  BY <1>13 DEF FinishWalk, EndPass, Forget, Goto, env, history
<1>14. CASE SkipNode(Live)
  BY <1>14 DEF SkipNode, NextNode, Goto, env, history
<1>15. CASE CommitNode(Live)
  BY <1>15 DEF CommitNode, Goto, env, history
<1>16. CASE AlertSent(Live)
  BY <1>16 DEF AlertSent, Goto, env, history
<1>17. CASE DelayOver(Live)
  BY <1>17 DEF DelayOver, Goto, env, history
<1>18. CASE Send(Live)
  <2>1. ~DryRun(Live) /\ pc[Live] = "send" /\ pc' = [pc EXCEPT ![Live] = "ssh"]
    BY <1>18 DEF Send, DryRun, Goto
  <2>2. sent' = sent \cup {NodeOf(Live)} /\ NodeOf(Live) \in Names
    BY <1>18, <2>1, NodeType DEF Send
  <2>3. UNCHANGED <<locks, lowest, charge, reading, status, at>>
    BY <1>18, <2>1 DEF Send, env
  <2>4. QED
    BY <2>1, <2>2, <2>3
<1>19. CASE SshReturns(Live)
  BY <1>19 DEF SshReturns, NextNode, Goto, env, history
<1>20. CASE ReportSent(Live)
  BY <1>20 DEF ReportSent, NextNode, EndPass, Forget, Goto, env, history
<1>21. CASE UNCHANGED vars
  BY <1>21 DEF vars, env, script, history
<1>22. QED
  BY NoTouchFails, <1>1, <1>2, <1>3, <1>4, <1>5, <1>6, <1>7, <1>8, <1>9,
     <1>10, <1>11, <1>12, <1>13, <1>14, <1>15, <1>16, <1>17, <1>18,
     <1>19, <1>20, <1>21
  DEF Next, Environment, Script, Local, Slack

-----------------------------------------------------------------------------
(* The theorems.                                                           *)

\* While no other copy of the script runs, no node gets more commands in an outage
\* than one for the outage and one for each stop of the service in it.
THEOREM AtMostOnce == ASSUME Procs = {Live} PROVE Spec => []AtMostOncePerBoot
<1>1. Init => PassInv /\ BudgetInv
  BY ConfAssumption
  DEF Init, PassInv, BudgetInv, Walking, PendingNode
<1>2. TypeInv /\ PassInv /\ BudgetInv /\ [Next]_vars => (PassInv /\ BudgetInv)'
  BY PassStep, BudgetStep
<1>3. BudgetInv => AtMostOncePerBoot
  BY DEF BudgetInv, AtMostOncePerBoot
<1>4. QED
  BY <1>1, <1>2, <1>3, TypeInvariant, PTL DEF Spec

\* While no other copy of the script runs, an entry listed first with a threshold
\* no lower is locked whenever the later one is.
THEOREM Staged == ASSUME Procs = {Live} PROVE Spec => []StagedOrder
<1>1. Init => PassInv /\ StagedOrder
  BY ConfAssumption DEF Init, PassInv, StagedOrder, Walking
<1>2. TypeInv /\ PassInv /\ StagedOrder /\ [Next]_vars => (PassInv /\ StagedOrder)'
  BY PassStep, StagedStep
<1>3. QED
  BY <1>1, <1>2, TypeInvariant, PTL DEF Spec

\* If in addition no two entries share a lock, the lock of a node is evidence that
\* this node, and not a namesake, was fired.
THEOREM LockIsEvidence ==
  ASSUME Procs = {Live}, OneLockEach PROVE Spec => []LockedMeansFired
<1>1. Init => LockedMeansFired
  BY DEF Init, LockedMeansFired
<1>2. TypeInv /\ LockedMeansFired /\ [Next]_vars => LockedMeansFired'
  BY LockedStep
<1>3. QED
  BY <1>1, <1>2, TypeInvariant, PTL DEF Spec

\* A service on its own sends its command to every crossed node it walks past.
THEOREM WalksFire ==
  ASSUME Procs = {Live}, OneLockEach PROVE Spec => []CrossedAreFired
<1>1. Init => PassInv /\ LockedMeansFired
  BY ConfAssumption DEF Init, PassInv, LockedMeansFired, Walking
<1>2. TypeInv /\ PassInv /\ LockedMeansFired /\ [Next]_vars
        => (PassInv /\ LockedMeansFired)'
  BY PassStep, LockedStep
<1>3. TypeInv /\ PassInv /\ LockedMeansFired => CrossedAreFired
  BY LenNodes
  DEF TypeInv, ScriptType, Positioned, PassInv, Walking, LockedMeansFired, PendingNode,
      CrossedAreFired
<1>4. QED
  BY <1>1, <1>2, <1>3, TypeInvariant, PTL DEF Spec

\* If upsd prints the charge as an integer, no node is fired that the battery has
\* not fallen to.
THEOREM NoEarlyShutdown ==
  ASSUME Procs = {Live}, Forms = {"integer"} PROVE Spec => []FiredOnlyBelowThreshold
<1>1. Init => PassInv /\ ChargeInv
  BY ConfAssumption
  DEF Init, PassInv, ChargeInv, FiredOnlyBelowThreshold, Walking
<1>2. TypeInv /\ PassInv /\ ChargeInv /\ [Next]_vars => (PassInv /\ ChargeInv)'
  BY PassStep, ChargeStep
<1>3. ChargeInv => FiredOnlyBelowThreshold
  BY DEF ChargeInv
<1>4. QED
  BY <1>1, <1>2, <1>3, TypeInvariant, PTL DEF Spec

-----------------------------------------------------------------------------
(* The daemon implements StagedShedding.                                   *)

\* A target is the name of an entry.
LEMMA TargetNames == Targets \subseteq Names
  BY ConfAssumption, LenNodes DEF Targets

\* The node worked on is a target.
LEMMA NodeIsTarget == HasNode(Live) => NodeOf(Live) \in Targets
  BY DEF HasNode, NodeOf, Targets

\* The initial states map to initial states.
LEMMA InitRefines == Init => Promise!Init
<1> SUFFICES ASSUME Init PROVE Promise!Init
  OBVIOUS
<1>1. \A n \in Targets : Phase(n) = "armed"
  BY DEF Init, Phase
<1>2. \A n \in Targets : fires[n] = 0
  BY TargetNames DEF Init
<1>3. QED
  BY <1>1, <1>2 DEF Init, Promise!Init, Promise!AllArmed

\* A step that leaves the locks, the commands and the work on a node alone is
\* not a step of the promise.
LEMMA NoStep ==
  ASSUME UNCHANGED <<locks, fires, restarts>>,
         \A n \in Targets : PendingNode(Live, n)' <=> PendingNode(Live, n)
  PROVE  UNCHANGED Promise!promise
  BY DEF Promise!promise, Phase

\* A new outage resets the commands and moves no target.
LEMMA OutageRefines == LoseMains => Promise!Outage
<1> SUFFICES ASSUME LoseMains PROVE Promise!Outage
  OBVIOUS
<1>1. \A n \in Targets : fires'[n] = 0
  BY TargetNames DEF LoseMains
<1>2. \A n \in Targets : Phase(n)' = Phase(n)
  BY DEF LoseMains, script, Phase, PendingNode, NodeOf
<1>3. QED
  BY <1>1, <1>2 DEF LoseMains, Promise!Outage

\* A stop of the service, which empties LOCK_DIR, arms every target.
LEMMA StopRefines == Stop(Live) => Promise!Restart
<1> SUFFICES ASSUME Stop(Live) PROVE Promise!Restart
  OBVIOUS
<1>1. locks' = {} /\ restarts' = restarts + 1 /\ fires' = fires
  BY DEF Stop, DryRun
<1>2. \A n \in Targets : Phase(n)' = "armed"
  BY <1>1 DEF Phase
<1>3. QED
  BY <1>1, <1>2 DEF Promise!Restart, Promise!AllArmed

\* Clearing the locks arms every target, and no target is committed then.
LEMMA ClearRefines == ClearLocks(Live) => Promise!Rearm
<1> SUFFICES ASSUME ClearLocks(Live) PROVE Promise!Rearm
  OBVIOUS
<1>1. locks' = {} /\ UNCHANGED <<restarts, fires>> /\ pc[Live] = "decide"
  BY DEF ClearLocks
<1>2. \A n \in Targets : Phase(n)' = "armed" /\ Phase(n) # "committed"
  BY <1>1 DEF Phase, PendingNode
<1>3. QED
  BY <1>1, <1>2 DEF Promise!Rearm, Promise!AllArmed

\* Touching a lock commits a target, when every earlier stage is shed.
LEMMA CommitRefines ==
  OneLockEach /\ TypeInv /\ PassInv /\ CommitNode(Live)
    => Promise!Commit(NodeOf(Live))
<1> SUFFICES ASSUME OneLockEach, TypeInv, PassInv, CommitNode(Live)
             PROVE  Promise!Commit(NodeOf(Live))
  OBVIOUS
<1> DEFINE n == NodeOf(Live)
<1> USE ConfAssumption, LenNodes
<1>1. /\ pc[Live] = "walk" /\ HasNode(Live) /\ Crossed(reading[Live], n)
      /\ Key[n] \notin locks /\ locks' = locks \cup {Key[n]}
      /\ UNCHANGED <<fires, restarts, at>> /\ pc'[Live] = "alert"
  BY DEF CommitNode, Goto, KeyOf, history, TypeInv, ScriptType
<1>2. n \in Targets /\ NodeOf(Live)' = n
  BY <1>1, NodeIsTarget DEF NodeOf
<1>3. \A u \in Targets : Phase(u) # "committed"
  BY <1>1 DEF Phase, PendingNode
<1>4. Phase(n) = "armed" /\ Phase(n)' = "committed"
  BY <1>1, <1>2 DEF Phase, PendingNode
<1>5. \A u \in Targets : u # n => Phase(u)' = Phase(u)
  <2>1. SUFFICES ASSUME NEW u \in Targets, u # n PROVE Phase(u)' = Phase(u)
    OBVIOUS
  <2>2. Key[u] # Key[n]
    BY <2>1, <1>2 DEF Targets, OneLockEach
  <2>3. ~PendingNode(Live, u) /\ ~PendingNode(Live, u)'
    BY <2>1, <1>1, <1>2 DEF PendingNode
  <2>4. QED
    BY <1>1, <2>2, <2>3 DEF Phase
<1>6. \A u \in Stage(n) : u \in Targets /\ Phase(u) = "shed"
  <2>1. SUFFICES ASSUME NEW i \in 1 .. Len(Nodes), 
                        \A j \in 1 .. Len(Nodes) : Nodes[j] = n => i < j,
                        Threshold[Key[Nodes[i]]] >= Threshold[Key[n]]
                 PROVE  Nodes[i] \in Targets /\ Phase(Nodes[i]) = "shed"
    BY DEF Stage
  <2>2. i < at[Live] /\ at[Live] \in 1 .. Len(Nodes)
    BY <1>1, <2>1 DEF HasNode, NodeOf
  <2>3. /\ reading[Live].value \in Nat
        /\ Threshold[Key[Nodes[i]]] \in Nat /\ Threshold[Key[n]] \in Nat
    BY <1>2, TargetNames DEF TypeInv, ScriptType
  <2>4. Crossed(reading[Live], Nodes[i])
    BY <1>1, <2>1, <2>3 DEF Crossed
  <2>5. Key[Nodes[i]] \in locks
    BY <1>1, <2>2, <2>4 DEF PassInv, Walking
  <2>6. QED
    BY <1>1, <2>5 DEF Phase, PendingNode, Targets
<1>7. QED
  BY <1>1, <1>2, <1>3, <1>4, <1>5, <1>6 DEF Promise!Commit

\* Starting ssh is the command, and the budget allows it.
LEMMA SendRefines ==
  OneLockEach /\ TypeInv /\ PassInv /\ BudgetInv /\ Send(Live)
    => \A n \in Targets : n = NodeOf(Live) => Promise!Command(n)
<1> SUFFICES ASSUME OneLockEach, TypeInv, PassInv, BudgetInv, Send(Live),
                    NEW n \in Targets, n = NodeOf(Live)
             PROVE  Promise!Command(n)
  OBVIOUS
<1> USE ConfAssumption, LenNodes
<1>1. /\ pc[Live] = "send" /\ pc' = [pc EXCEPT ![Live] = "ssh"]
      /\ fires' = [fires EXCEPT ![n] = @ + 1]
      /\ UNCHANGED <<at, locks, restarts>>
  BY DEF Send, DryRun, Goto
<1>2. HasNode(Live) /\ n \in Targets /\ n \in Names
  BY <1>1, NodeIsTarget, TargetNames DEF TypeInv, ScriptType, Positioned
<1>3. pc'[Live] = "ssh" /\ fires \in [Names -> Nat]
  BY <1>1 DEF TypeInv, ScriptType, DataType
<1>4. Key[n] \in locks
  BY <1>1 DEF PassInv, KeyOf
<1>5. Phase(n) = "committed" /\ Phase(n)' = "shed"
  <2>1. NodeOf(Live)' = n
    BY <1>1 DEF NodeOf
  <2>2. Key[n]' \in locks' /\ ~PendingNode(Live, n)'
    BY <1>1, <1>3, <1>4, <2>1 DEF PendingNode
  <2>3. QED
    BY <1>1, <1>4, <2>2 DEF Phase, PendingNode
<1>6. \A u \in Targets : u # n => Phase(u)' = Phase(u)
  BY <1>1, <1>3 DEF Phase, PendingNode
<1>7. fires[n] <= restarts
  BY <1>1, <1>2 DEF BudgetInv, PendingNode
<1>8. [u \in Targets |-> fires[u]]' = [[u \in Targets |-> fires[u]] EXCEPT ![n] = @ + 1]
  BY <1>1, <1>2, <1>3, TargetNames
<1>9. [u \in Targets |-> Phase(u)]' = [[u \in Targets |-> Phase(u)] EXCEPT ![n] = "shed"]
  <2>1. NodeOf(Live)' = n
    BY <1>1 DEF NodeOf
  <2>2. \A u \in Targets : Phase(u)' = IF u = n THEN "shed" ELSE Phase(u)
    BY <1>5, <1>6, <2>1
  <2>3. QED
    BY <1>2, <2>2
<1>10. QED
  BY <1>1, <1>2, <1>5, <1>7, <1>8, <1>9 DEF Promise!Command

\* Every step of the daemon is a step of the promise or stutters.
LEMMA StepRefines ==
  /\ Procs = {Live} /\ OneLockEach
  /\ TypeInv /\ PassInv /\ BudgetInv /\ [Next]_vars
  => [Promise!Next]_Promise!promise
<1> SUFFICES ASSUME Procs = {Live}, OneLockEach,
                    TypeInv, PassInv, BudgetInv, [Next]_vars
             PROVE  [Promise!Next]_Promise!promise
  OBVIOUS
<1> USE DEF Promise!Next
<1>1. CASE LoseMains
  BY <1>1, OutageRefines
<1>2. CASE RestoreMains \/ Drain \/ Recharge \/ UpsdChanges \/ UNCHANGED vars
  BY <1>2, NoStep
  DEF RestoreMains, Drain, Recharge, UpsdChanges, vars, script, history,
      PendingNode, NodeOf
<1>3. CASE Stop(Live)
  BY <1>3, StopRefines
<1>4. CASE ClearLocks(Live)
  BY <1>4, ClearRefines
<1>5. CASE CommitNode(Live)
  <2>1. NodeOf(Live) \in Targets
    BY <1>5, NodeIsTarget DEF CommitNode
  <2>2. QED
    BY <1>5, <2>1, CommitRefines
<1>6. CASE Send(Live)
  <2>1. NodeOf(Live) \in Targets
    BY <1>6, NodeIsTarget DEF Send, TypeInv, ScriptType, Positioned
  <2>2. \E n \in Targets : Promise!Command(n)
    BY <1>6, <2>1, SendRefines
  <2>3. QED
    BY <2>2
<1>7. CASE Start(Live) \/ ReadStatus(Live) \/ ReadCharge(Live)
  BY <1>7, NoStep
  DEF Start, ReadStatus, ReadCharge, Goto, history, PendingNode, TypeInv, ScriptType
<1>8. CASE IgnorePoll(Live) \/ StartWalk(Live) \/ FinishWalk(Live) \/ SkipNode(Live)
  BY <1>8, NoStep
  DEF IgnorePoll, StartWalk, FinishWalk, SkipNode, EndPass, Forget, NextNode, Goto, history,
      PendingNode, TypeInv, ScriptType
<1>9. CASE AlertSent(Live) \/ DelayOver(Live)
  BY <1>9, NoStep
  DEF AlertSent, DelayOver, Goto, history, PendingNode, NodeOf, TypeInv, ScriptType
<1>10. CASE SshReturns(Live) \/ ReportSent(Live)
  BY <1>10, NoStep
  DEF SshReturns, ReportSent, EndPass, Forget, NextNode, Goto, history, PendingNode,
      TypeInv, ScriptType
<1>11. QED
  BY NoTouchFails, <1>1, <1>2, <1>3, <1>4, <1>5, <1>6, <1>7, <1>8, <1>9, <1>10
  DEF Next, Environment, Script, Local, Slack

\* With one copy of the script and one lock per entry, the daemon is a correct
\* implementation of staged shedding.
THEOREM Refinement == ASSUME Procs = {Live}, OneLockEach PROVE Spec => KeepsPromise
<1>1. Init => PassInv /\ BudgetInv
  BY ConfAssumption DEF Init, PassInv, BudgetInv, Walking, PendingNode
<1>2. TypeInv /\ PassInv /\ BudgetInv /\ [Next]_vars => (PassInv /\ BudgetInv)'
  BY PassStep, BudgetStep
<1>3. Init => Promise!Init
  BY InitRefines
<1>4. TypeInv /\ PassInv /\ BudgetInv /\ [Next]_vars => [Promise!Next]_Promise!promise
  BY StepRefines
<1>5. QED
  BY <1>1, <1>2, <1>3, <1>4, TypeInvariant, PTL DEF Spec, KeepsPromise, Promise!Spec
=============================================================================
