-------------------------- MODULE MCBatteryShutdown --------------------------
(* Instances of BatteryShutdown for TLC: a NAS, a hypervisor and a gateway. *)
EXTENDS BatteryShutdown

\* Inventory order of the example: the NAS sheds early, the gateway last.
TwoNodes == <<"nas", "gw">>
ThreeNodes == <<"nas", "pve", "gw">>

\* Listed against their thresholds, as an inventory may be.
GwFirst == <<"gw", "nas">>

OneKeyEach == [n \in Names |-> n]

\* Two entries whose sanitised hosts are equal, such as nas-1 and nas.1.
SameKey == [n \in Names |-> "nas"]

Staged == [k \in Keys |-> IF k = "gw" THEN 0 ELSE 1]
=============================================================================
