------------------------------ MODULE MCFanOut ------------------------------
(* Instances of FanOut for TLC. *)
EXTENDS FanOut

\* The first two hosts are one account of one machine under two names.
SharedHost == [c \in Callers |-> IF c = 1 THEN 2 ELSE c]
=============================================================================
