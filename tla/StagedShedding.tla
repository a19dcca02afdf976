---------------------------- MODULE StagedShedding ----------------------------
(***************************************************************************)
(* What the battery-shutdown daemon promises, without polls, locks or a    *)
(* shell: targets are shed one at a time, in stages, each at most once per *)
(* outage for each time the service was started in that outage.            *)
(***************************************************************************)
EXTENDS Naturals

CONSTANTS
  Targets,      \* what is to be shut down
  Before        \* for each target, the targets that are shed before it

VARIABLES
  phase,        \* "armed", "committed" (about to be shed) or "shed"
  commands,     \* commands sent to each target in this outage
  restarts      \* stops of the service in this outage

promise == <<phase, commands, restarts>>

AllArmed == [t \in Targets |-> "armed"]

Init ==
  /\ phase = AllArmed
  /\ commands = [t \in Targets |-> 0]
  /\ restarts = 0

Outage ==
  /\ commands' = [t \in Targets |-> 0]
  /\ restarts' = 0
  /\ UNCHANGED phase

\* One target at a time, and only when every earlier stage has been shed.
Commit(t) ==
  /\ phase[t] = "armed"
  /\ \A u \in Targets : phase[u] # "committed"
  /\ \A u \in Before[t] : phase[u] = "shed"
  /\ phase' = [phase EXCEPT ![t] = "committed"]
  /\ UNCHANGED <<commands, restarts>>

Command(t) ==
  /\ phase[t] = "committed"
  /\ commands[t] <= restarts
  /\ phase' = [phase EXCEPT ![t] = "shed"]
  /\ commands' = [commands EXCEPT ![t] = @ + 1]
  /\ UNCHANGED restarts

\* Mains was seen: every target may be shed again, but none is abandoned.
Rearm ==
  /\ \A t \in Targets : phase[t] # "committed"
  /\ phase' = AllArmed
  /\ UNCHANGED <<commands, restarts>>

Restart ==
  /\ phase' = AllArmed
  /\ restarts' = restarts + 1
  /\ UNCHANGED commands

Next ==
  \/ Outage \/ Rearm \/ Restart
  \/ \E t \in Targets : Commit(t) \/ Command(t)

Spec == Init /\ [][Next]_promise
=============================================================================
