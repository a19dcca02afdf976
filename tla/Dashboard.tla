------------------------------ MODULE Dashboard ------------------------------
(***************************************************************************)
(* The terminal interface: its screens and keys (internal/tui/model.go),   *)
(* the polls behind its dashboard (internal/tui/dashboard.go), what a poll *)
(* does for each host (internal/upspoll/poll.go), and the client of upsd   *)
(* it does it with (internal/ups/client.go); and `homelab-nut status',     *)
(* once or with --watch, which makes the same polls one after the other    *)
(* and prints them (internal/cli/status.go).                               *)
(*                                                                         *)
(* One session over one loaded inventory; what its end leads to is module  *)
(* InventoryFile.  Polls run in goroutines of their own and end in any     *)
(* order.  Hosts and cards are counted from 1.                             *)
(***************************************************************************)
EXTENDS Integers, Sequences

CONSTANTS
  NHosts,   \* hosts of the inventory
  Cards,    \* the nut-server hosts, in the order of the inventory
  Endless,  \* places in Cards: servers whose lists need not end
  Slots     \* bound: polls at a time

ASSUME HostsAssumption ==
  /\ NHosts \in Nat \ {0}
  /\ Cards \in Seq(1 .. NHosts) \ {<<>>}
  /\ \A i, j \in DOMAIN Cards : i < j => Cards[i] < Cards[j]
  /\ Endless \subseteq DOMAIN Cards
ASSUME SlotsAssumption == Slots \subseteq Nat /\ Slots # {}

VARIABLES
  at,        \* where the goroutine of a host is, for each poll under way
  out,       \* the rows a poll has filled in
  inFlight, rows, dashSelected, selectedHost,   \* rootModel
  current,   \* its screen; or how `status' runs
  exit       \* exitAction and exitHostIdx

polls == <<at, out>>
screens == <<dashSelected, selectedHost, current>>
vars == <<polls, inFlight, rows, screens, exit>>

Places == DOMAIN Cards
Busy(s) == DOMAIN at[s] # {}
Idle == [i \in {} |-> "dial"]
Blank == [host |-> 0, state |-> "blank"]
Fresh == [i \in Places |-> Blank]
NoExit == [action |-> "stay", host |-> 0]
HasServer(h) == \E i \in Places : Cards[i] = h

-----------------------------------------------------------------------------
\* A poll: one goroutine for each host, which dials and asks for two lists.

\* The goroutine of place i in poll s goes on, or is done with a row.
Goes(s, i, from, to) ==
  /\ i \in DOMAIN at[s] /\ at[s][i] = from
  /\ at' = [at EXCEPT ![s][i] = to] /\ UNCHANGED out
Ends(s, i, state) ==
  /\ at' = [at EXCEPT ![s][i] = "done"]
  /\ out' = [out EXCEPT ![s][i] = [host |-> Cards[i], state |-> state]]

\* A dial, unlike what follows it, heeds the signal.
Connect(s, i) == current # "interrupted" /\ Goes(s, i, "dial", "LIST UPS")
\* BEGIN and further names change nothing, and neither do values.
Name(s, i)    == Goes(s, i, "LIST UPS", "named")
EndNames(s, i) == Goes(s, i, "named", "LIST VAR")
EndValues(s, i) ==
  /\ i \in DOMAIN at[s] /\ at[s][i] = "LIST VAR"
  /\ Ends(s, i, "reading")

\* Mutant: dial again.
FailsRetrying(s, i) ==
  /\ i \in DOMAIN at[s] /\ at[s][i] # "done"
  /\ at' = [at EXCEPT ![s][i] = "dial"] /\ UNCHANGED out

\* Refused, closed, a line later than the deadline, ERR, a line that does not
\* fit, or a list of no UPS.
Fails(s, i) ==
  /\ i \in DOMAIN at[s] /\ at[s][i] # "done"
  /\ Ends(s, i, "error")

HostStep(s, i) ==
  /\ \/ Connect(s, i) \/ Name(s, i) \/ EndNames(s, i)
     \/ EndValues(s, i) \/ Fails(s, i)
  /\ UNCHANGED <<inFlight, rows, screens, exit>>

Start(s) ==
  /\ at' = [at EXCEPT ![s] = [i \in Places |-> "dial"]]
  /\ out' = [out EXCEPT ![s] = Fresh]

-----------------------------------------------------------------------------
\* Messages.

FirstSlot(s) == ~Busy(s) /\ \A t \in Slots : t < s => Busy(t)

\* Init, which cannot note on its copy of the model that a poll is under way; and
\* the first poll of `status'.
Init ==
  /\ \E s \in Slots :
       /\ \A t \in Slots : s <= t
       /\ at = [t \in Slots |-> IF t = s THEN [i \in Places |-> "dial"] ELSE Idle]
  /\ out = [s \in Slots |-> Fresh]
  /\ inFlight = FALSE /\ rows = <<>>
  /\ dashSelected = 1 /\ selectedHost = 1 /\ current \in {"Dashboard", "status", "watch"}
  /\ exit = NoExit

Open == exit = NoExit
Printing == current \in {"status", "watch", "interrupted"}
Tui == Open /\ ~Printing

Dispatch ==
  /\ Tui
  /\ inFlight' = TRUE
  /\ \E s \in Slots : FirstSlot(s) /\ Start(s)
  /\ UNCHANGED <<rows, screens, exit>>

\* dashboardTickMsg; the tick is armed again in any case.
Tick == ~inFlight /\ Dispatch

\* Mutant: the key asks for no guard.
RefreshAlways == Dispatch

Refresh == ~inFlight /\ Dispatch

Done(s) == Busy(s) /\ \A i \in DOMAIN at[s] : at[s][i] = "done"

Show(s) ==
  /\ rows' = out[s]
  /\ dashSelected' = IF dashSelected > Len(rows') THEN Len(rows') ELSE dashSelected
  /\ at' = [at EXCEPT ![s] = Idle] /\ out' = [out EXCEPT ![s] = Fresh]
  /\ UNCHANGED <<selectedHost, current, exit>>

\* Mutant: no wg.Wait.
UpdatedEarly(s) == Tui /\ Busy(s) /\ inFlight' = FALSE /\ Show(s)

\* wg.Wait, and dashboardUpdatedMsg.
Updated(s) == Tui /\ Done(s) /\ inFlight' = FALSE /\ Show(s)

-----------------------------------------------------------------------------
\* Keys.

Shown == IF dashSelected \in DOMAIN rows THEN rows[dashSelected].host ELSE 0

\* 1, 2, 3, tab and shift+tab, which take the detail screen for the dashboard.
Tabs == {"Dashboard", "Hosts", "Help"}
Back == [Dashboard |-> "Dashboard", Hosts |-> "Dashboard", Host |-> "Hosts", Help |-> "Dashboard"]

Switch ==
  /\ Tui
  /\ current' \in Tabs
  /\ UNCHANGED <<polls, inFlight, rows, dashSelected, selectedHost, exit>>

Esc ==
  /\ Tui
  /\ current' = Back[current]
  /\ UNCHANGED <<polls, inFlight, rows, dashSelected, selectedHost, exit>>

\* Mutant: the last card may be left.
DownPast ==
  /\ Tui /\ current = "Dashboard" /\ dashSelected <= Len(rows)
  /\ dashSelected' = dashSelected + 1
  /\ UNCHANGED <<polls, inFlight, rows, selectedHost, current, exit>>

\* up and down on the dashboard: the selection follows the card, by name.
Move ==
  /\ Tui /\ current = "Dashboard"
  /\ dashSelected' \in {dashSelected - 1, dashSelected + 1} \cap DOMAIN rows
  /\ selectedHost' = rows[dashSelected'].host
  /\ UNCHANGED <<polls, inFlight, rows, current, exit>>

\* Mutant: the index of the card for that of the host.
EnterByIndex ==
  /\ Tui /\ current = "Dashboard" /\ Shown # 0
  /\ selectedHost' = dashSelected /\ current' = "Host"
  /\ UNCHANGED <<polls, inFlight, rows, dashSelected, exit>>

Enter ==
  /\ Tui /\ current = "Dashboard" /\ Shown # 0
  /\ selectedHost' = Shown /\ current' = "Host"
  /\ UNCHANGED <<polls, inFlight, rows, dashSelected, exit>>

\* up, down and enter on the list of hosts.
MoveHost ==
  /\ Tui /\ current = "Hosts"
  /\ selectedHost' \in {selectedHost - 1, selectedHost + 1} \cap 1 .. NHosts
  /\ UNCHANGED <<polls, inFlight, rows, dashSelected, current, exit>>

EnterHost ==
  /\ Tui /\ current = "Hosts"
  /\ current' = "Host"
  /\ UNCHANGED <<polls, inFlight, rows, dashSelected, selectedHost, exit>>

\* The keys that end the interface with something to do.
Actions ==
  {"quit", "add-host"}
    \cup (IF current \in {"Hosts", "Host"}
            THEN {"edit-host", "apply-host", "uninstall-host", "backup-host"} ELSE {"edit"})
    \cup (IF current = "Hosts" THEN {"delete-host"} ELSE {})
    \cup (IF current \in {"Hosts", "Host"} /\ HasServer(selectedHost) THEN {"detect-host"} ELSE {})

\* The interface is left: what the polls find goes nowhere.
Leave ==
  /\ Tui
  /\ \E a \in Actions : exit' = [action |-> a, host |-> selectedHost]
  /\ at' = [s \in Slots |-> Idle] /\ out' = [s \in Slots |-> Fresh]
  /\ UNCHANGED <<inFlight, rows, screens>>

-----------------------------------------------------------------------------
\* status, and status --watch.

Quit == [action |-> "quit", host |-> 0]
Idling == \A s \in Slots : ~Busy(s)

\* The rows of a poll are printed, which may fail.
Render(s) ==
  /\ Open /\ Printing /\ Done(s)
  /\ rows' = out[s]
  /\ at' = [at EXCEPT ![s] = Idle] /\ out' = [out EXCEPT ![s] = Fresh]
  /\ exit' = Quit \/ (current # "status" /\ UNCHANGED exit)
  /\ UNCHANGED <<inFlight, screens>>

\* The ticker, also when the signal is there: select takes either.
Again ==
  /\ Open /\ current \in {"watch", "interrupted"} /\ Idling
  /\ \E s \in Slots : FirstSlot(s) /\ Start(s)
  /\ UNCHANGED <<inFlight, rows, screens, exit>>

\* Ctrl+C, or SIGTERM.  Without --watch it ends the program.
Interrupt ==
  /\ Open /\ Printing
  /\ IF current = "status"
       THEN /\ exit' = Quit /\ UNCHANGED current
            /\ at' = [s \in Slots |-> Idle] /\ out' = [s \in Slots |-> Fresh]
       ELSE current' = "interrupted" /\ UNCHANGED <<polls, exit>>
  /\ UNCHANGED <<inFlight, rows, dashSelected, selectedHost>>

Stop ==
  /\ Open /\ current = "interrupted" /\ Idling
  /\ exit' = Quit
  /\ UNCHANGED <<polls, inFlight, rows, screens>>

Next ==
  \/ \E s \in Slots : \E i \in Places : HostStep(s, i)
  \/ Tick \/ Refresh
  \/ \E s \in Slots : Updated(s) \/ Render(s)
  \/ Again \/ Interrupt \/ Stop
  \/ Switch \/ Esc \/ Move \/ Enter \/ MoveHost \/ EnterHost
  \/ Leave

Spec == Init /\ [][Next]_vars

-----------------------------------------------------------------------------
\* Fairness: goroutines run, timers fire and deadlines pass.  A server that
\* need not end its lists may keep its goroutine in a list.  Of a tick and a
\* signal that are both there, select takes either at random, so that neither
\* is passed over for ever.

Fair(s, i) == WF_vars(HostStep(s, i))
FairSpec ==
  /\ Spec /\ WF_vars(Tick) /\ WF_vars(Again) /\ SF_vars(Stop)
  /\ \A s \in Slots : /\ WF_vars(Updated(s)) /\ WF_vars(Render(s))
                      /\ \A i \in Places \ Endless : Fair(s, i)

-----------------------------------------------------------------------------
\* Properties.

Row == [host : 1 .. NHosts, state : {"reading", "error"}]
At == {"dial", "LIST UPS", "named", "LIST VAR", "done"}

\* Types; the cursors stay in range, however the rows come and go.
TypeOK ==
  /\ at \in [Slots -> {Idle} \cup [Places -> At]]
  /\ out \in [Slots -> [Places -> Row \cup {Blank}]]
  /\ inFlight \in BOOLEAN
  /\ dashSelected \in Places /\ selectedHost \in 1 .. NHosts
  /\ current \in {"Dashboard", "Hosts", "Host", "Help", "status", "watch", "interrupted"}

\* Polls do not pile up (model.go:127): the one of Init apart, a poll is started
\* only when none is noted, so there are never more than two, no more than one
\* unless one is noted, and one is noted only while there is one.  status --watch
\* notes none and has one at a time.
NoPileUp ==
  Open =>
    /\ \A s, t \in Slots : ~inFlight /\ Busy(s) /\ Busy(t) => s = t
    /\ \A s, t, u \in Slots : Busy(s) /\ Busy(t) /\ Busy(u) => s = t \/ t = u \/ s = u
    /\ inFlight => \E s \in Slots : Busy(s)

\* Poll waits for every host and returns the results in the order of the hosts
\* (poll.go:33): what is on the screen is a finished row for each.
RowsWhole ==
  rows = <<>> \/ /\ DOMAIN rows = Places
                 /\ \A i \in Places : rows[i] \in Row /\ rows[i].host = Cards[i]

\* New rows leave the cursor on the host it was on, and enter opens that host.
CursorStays ==
  [][/\ rows # <<>> /\ rows' # rows => rows'[dashSelected'].host = Shown
     /\ current = "Dashboard" /\ current' = "Host" => selectedHost' = Shown]_vars

\* Servers may refuse, answer late or answer in part: the rows are refreshed
\* again and again, and Ctrl+C ends a watch, provided every list ends or fails in
\* the end.
Waiting == IF Printing THEN \E s \in Slots : Busy(s) ELSE inFlight
Refreshes ==
  (\A s \in Slots : \A i \in Endless : Fair(s, i)) =>
    /\ []<>(~Open \/ Waiting) /\ []<>(~Open \/ ~Waiting)
    /\ current = "interrupted" ~> ~Open

\* "Per-host timeouts inside the poll cap how long inFlight stays true"
\* (model.go:128).  The code does not keep it: the deadline is per line, and a
\* server that goes on sending lines is never given up.
PollsEnd == []<>(~Open \/ ~inFlight)

\* "Ctrl+C (and SIGTERM) exits cleanly" (status.go:62).  The code does not keep
\* it: the signal is caught, and a poll under way is waited for.
CtrlCExits == current = "interrupted" ~> ~Open

\* "inFlight is true between a poll cmd dispatch and its result, so the tick
\* doesn't pile up overlapping polls" (dashboard.go:28).  The code does not keep
\* it for the poll of Init.
NoOverlap == \A s, t \in Slots : Busy(s) /\ Busy(t) => s = t
=============================================================================
