------------------------------ MODULE RoleWalk ------------------------------
(***************************************************************************)
(* What a command that changes hosts promises about each of them, whatever *)
(* the number of goroutines: nothing is begun before the user agreed; the  *)
(* roles of a host are begun one at a time, each once, in the order of     *)
(* installation, or against it for an uninstall; a stopped host is left    *)
(* alone.  Roles are numbered by their place in roleOrder                  *)
(* (orchestrator.go).                                                      *)
(***************************************************************************)
EXTENDS Integers

CONSTANTS Hosts, Roles

VARIABLES
  agreed,     \* the user has agreed to the changes
  backwards,  \* the command is an uninstall
  begun,      \* begun[h]: the roles that were begun on h
  busy,       \* busy[h]: a role of h is being worked on
  stopped     \* stopped[h]: nothing more is begun on h

vars == <<agreed, backwards, begun, busy, stopped>>

Init ==
  /\ agreed = FALSE
  /\ backwards \in BOOLEAN
  /\ begun = [h \in Hosts |-> {}]
  /\ busy = [h \in Hosts |-> FALSE]
  /\ stopped = [h \in Hosts |-> FALSE]

Agree ==
  /\ ~agreed
  /\ agreed' = TRUE
  /\ UNCHANGED <<backwards, begun, busy, stopped>>

\* r is later in the walk than all that was begun on h.
IsLater(h, r) == \A b \in begun[h] : IF backwards THEN r < b ELSE b < r

Begin(h, r) ==
  /\ agreed
  /\ ~busy[h]
  /\ ~stopped[h]
  /\ IsLater(h, r)
  /\ begun' = [begun EXCEPT ![h] = @ \cup {r}]
  /\ busy' = [busy EXCEPT ![h] = TRUE]
  /\ UNCHANGED <<agreed, backwards, stopped>>

\* The role that was worked on is over, and with it the host or not.
End(h) ==
  /\ busy[h]
  /\ busy' = [busy EXCEPT ![h] = FALSE]
  /\ \E s \in BOOLEAN : stopped' = [stopped EXCEPT ![h] = s]
  /\ UNCHANGED <<agreed, backwards, begun>>

Stop(h) ==
  /\ agreed
  /\ stopped' = [stopped EXCEPT ![h] = TRUE]
  /\ UNCHANGED <<agreed, backwards, begun, busy>>

Next ==
  \/ Agree
  \/ \E h \in Hosts :
       \/ \E r \in Roles : Begin(h, r)
       \/ End(h)
       \/ Stop(h)

Spec == Init /\ [][Next]_vars
=============================================================================
