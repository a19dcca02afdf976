--------------------------- MODULE DashboardProofs ---------------------------
(* Theorems about Dashboard, for any inventory with a server, any servers     *)
(* and any number of slots.  The inductive invariant says besides that a      *)
(* goroutine that is done has left a row of its host in its place.            *)
EXTENDS Dashboard, TLAPS

Filled ==
  \A s \in Slots : \A i \in DOMAIN at[s] :
    at[s][i] = "done" => out[s][i] \in Row /\ out[s][i].host = Cards[i]

\* The poll of a `status' is not noted.
QuietRender == Printing => ~inFlight

IInv == TypeOK /\ NoPileUp /\ RowsWhole /\ Filled /\ QuietRender

Ui == Switch \/ Esc \/ Move \/ Enter \/ MoveHost \/ EnterHost

LEMMA CardsAreHosts ==
  /\ Places # {} /\ Places = 1 .. Len(Cards) /\ Len(Cards) \in Nat \ {0}
  /\ \A i \in Places : Cards[i] \in 1 .. NHosts
  /\ NHosts \in Nat \ {0}
BY HostsAssumption, SMT DEF Places

\* A seat is idle or has a goroutine for each place.
LEMMA Seats ==
  /\ DOMAIN Idle = {}
  /\ \A f \in [Places -> At] : DOMAIN f = Places
BY DEF Idle

\* A row as the goroutines leave it.
LEMMA RowType ==
  ASSUME NEW i \in Places, NEW x \in {"reading", "error"}
  PROVE  [host |-> Cards[i], state |-> x] \in Row
BY CardsAreHosts DEF Row

LEMMA InitIInv == Init => IInv
<1> SUFFICES ASSUME Init PROVE IInv
  OBVIOUS
<1>1. PICK s \in Slots : at = [t \in Slots |-> IF t = s THEN [i \in Places |-> "dial"] ELSE Idle]
  BY DEF Init
<1>2. \A t \in Slots : Busy(t) <=> t = s
  BY <1>1, CardsAreHosts, Seats DEF Busy
<1>3. TypeOK
  <2>1. at \in [Slots -> {Idle} \cup [Places -> At]]
    BY <1>1 DEF At
  <2>2. out \in [Slots -> [Places -> Row \cup {Blank}]]
    BY DEF Init, Fresh
  <2>3. inFlight \in BOOLEAN
    BY Zenon DEF Init
  <2>4. dashSelected \in Places /\ selectedHost \in 1 .. NHosts
    BY CardsAreHosts DEF Init
  <2>5. current \in {"Dashboard", "Hosts", "Host", "Help", "status", "watch", "interrupted"}
    BY DEF Init
  <2> QED BY <2>1, <2>2, <2>3, <2>4, <2>5 DEF TypeOK
<1>4. NoPileUp
  BY <1>2 DEF Init, NoPileUp
<1>5. RowsWhole /\ Filled /\ QuietRender
  BY <1>1, Seats DEF Init, RowsWhole, Filled, QuietRender
<1> QED BY <1>3, <1>4, <1>5 DEF IInv

\* What the goroutine of a host does to its poll.
LEMMA HostMoves ==
  ASSUME IInv, NEW s \in Slots, NEW i \in Places, HostStep(s, i)
  PROVE  /\ i \in DOMAIN at[s] /\ at[s] \in [Places -> At]
         /\ \/ /\ \E to \in At \ {"done"} : at' = [at EXCEPT ![s][i] = to]
               /\ out' = out
            \/ /\ at' = [at EXCEPT ![s][i] = "done"]
               /\ \E x \in {"reading", "error"} :
                    out' = [out EXCEPT ![s][i] = [host |-> Cards[i], state |-> x]]
<1>1. i \in DOMAIN at[s]
  BY DEF HostStep, Connect, Name, EndNames, EndValues, Fails, Goes
<1>2. at[s] \in [Places -> At]
  BY <1>1, Seats DEF IInv, TypeOK
<1> QED BY <1>1, <1>2 DEF HostStep, Connect, Name, EndNames, EndValues, Fails, Goes, Ends, At

LEMMA HostKeeps ==
  ASSUME IInv, NEW s \in Slots, NEW i \in Places, HostStep(s, i) PROVE IInv'
<1>1. UNCHANGED <<inFlight, rows, dashSelected, selectedHost, current, exit>>
  BY DEF HostStep, screens
<1>2. TypeOK'
  <2>1. at' \in [Slots -> {Idle} \cup [Places -> At]]
    <3>1. PICK to \in At : at' = [at EXCEPT ![s][i] = to]
      BY HostMoves DEF At
    <3>2. [at[s] EXCEPT ![i] = to] \in [Places -> At]
      BY HostMoves
    <3> QED BY <3>1, <3>2 DEF IInv, TypeOK
  <2>2. out' \in [Slots -> [Places -> Row \cup {Blank}]]
    <3>1. CASE out' = out
      BY <3>1 DEF IInv, TypeOK
    <3>2. CASE \E x \in {"reading", "error"} :
                 out' = [out EXCEPT ![s][i] = [host |-> Cards[i], state |-> x]]
      <4>1. PICK r \in Row : out' = [out EXCEPT ![s][i] = r]
        BY <3>2, RowType
      <4>2. [out[s] EXCEPT ![i] = r] \in [Places -> Row \cup {Blank}]
        BY DEF IInv, TypeOK
      <4> QED BY <4>1, <4>2 DEF IInv, TypeOK
    <3> QED BY <3>1, <3>2, HostMoves
  <2> QED BY <1>1, <2>1, <2>2 DEF IInv, TypeOK
<1>3. \A t \in Slots : DOMAIN at'[t] = DOMAIN at[t]
  BY HostMoves DEF IInv, TypeOK
<1>4. NoPileUp'
  BY <1>1, <1>3 DEF IInv, NoPileUp, Busy, Open
<1>5. RowsWhole'
  BY <1>1 DEF IInv, RowsWhole
<1>6. Filled'
  <2> SUFFICES ASSUME NEW t \in Slots, NEW j \in DOMAIN at'[t], at'[t][j] = "done"
               PROVE  out'[t][j] \in Row /\ out'[t][j].host = Cards[j]
    BY DEF Filled
  <2>1. CASE t = s /\ j = i
    <3>1. at'[s][i] = "done"
      BY <2>1
    <3>2. \E x \in {"reading", "error"} :
            out' = [out EXCEPT ![s][i] = [host |-> Cards[i], state |-> x]]
      BY <3>1, HostMoves DEF IInv, TypeOK
    <3>3. PICK r \in Row : r.host = Cards[i] /\ out' = [out EXCEPT ![s][i] = r]
      BY <3>2, RowType
    <3>4. out[s] \in [Places -> Row \cup {Blank}]
      BY DEF IInv, TypeOK
    <3>5. out'[s][i] = r
      BY <3>3, <3>4 DEF IInv, TypeOK
    <3> QED BY <2>1, <3>3, <3>5
  <2>2. CASE ~(t = s /\ j = i)
    <3>1. j \in DOMAIN at[t] /\ at[t][j] = "done"
      BY <2>2, <1>3, HostMoves DEF IInv, TypeOK
    <3>2. j \in Places
      BY <3>1, Seats DEF IInv, TypeOK
    <3>3. out'[t][j] = out[t][j]
      BY <2>2, <3>2, HostMoves DEF IInv, TypeOK
    <3> QED BY <3>1, <3>3 DEF IInv, Filled
  <2> QED BY <2>1, <2>2
<1>7. QuietRender'
  BY <1>1 DEF IInv, QuietRender, Printing
<1> QED BY <1>2, <1>4, <1>5, <1>6, <1>7 DEF IInv

LEMMA DispatchKeeps == ASSUME IInv, ~inFlight, Dispatch PROVE IInv'
<1>1. PICK s \in Slots : ~Busy(s) /\ Start(s)
  BY DEF Dispatch, FirstSlot
<1>2. Open /\ ~Printing /\ inFlight' = TRUE
      /\ UNCHANGED <<rows, dashSelected, selectedHost, current, exit>>
  BY DEF Dispatch, screens, Tui
<1>3. TypeOK'
  <2>1. at' \in [Slots -> {Idle} \cup [Places -> At]]
    BY <1>1 DEF Start, IInv, TypeOK, At
  <2>2. out' \in [Slots -> [Places -> Row \cup {Blank}]]
    BY <1>1 DEF Start, Fresh, IInv, TypeOK
  <2> QED BY <1>2, <2>1, <2>2 DEF IInv, TypeOK
<1>4. \A t \in Slots : Busy(t)' <=> Busy(t) \/ t = s
  BY <1>1, CardsAreHosts DEF Start, Busy, IInv, TypeOK
<1>5. NoPileUp'
  BY <1>2, <1>4 DEF IInv, NoPileUp, Open
<1>6. RowsWhole'
  BY <1>2 DEF IInv, RowsWhole
<1>7. Filled'
  BY <1>1 DEF Start, IInv, Filled, TypeOK
<1>8. QuietRender'
  BY <1>2 DEF QuietRender, Printing
<1> QED BY <1>3, <1>5, <1>6, <1>7, <1>8 DEF IInv

LEMMA AgainKeeps == ASSUME IInv, Again PROVE IInv'
<1>1. PICK s \in Slots : Start(s)
  BY DEF Again
<1>2. Printing /\ Idling /\ UNCHANGED <<inFlight, rows, dashSelected, selectedHost, current, exit>>
  BY DEF Again, screens, Printing
<1>3. TypeOK'
  <2>1. at' \in [Slots -> {Idle} \cup [Places -> At]]
    BY <1>1 DEF Start, IInv, TypeOK, At
  <2>2. out' \in [Slots -> [Places -> Row \cup {Blank}]]
    BY <1>1 DEF Start, Fresh, IInv, TypeOK
  <2> QED BY <1>2, <2>1, <2>2 DEF IInv, TypeOK
<1>4. \A t \in Slots : Busy(t)' <=> t = s
  BY <1>1, <1>2, CardsAreHosts DEF Start, Busy, Idling, IInv, TypeOK
<1>5. NoPileUp'
  BY <1>2, <1>4 DEF IInv, QuietRender, NoPileUp
<1>6. RowsWhole' /\ QuietRender'
  BY <1>2 DEF IInv, RowsWhole, QuietRender, Printing
<1>7. Filled'
  BY <1>1 DEF Start, IInv, Filled, TypeOK
<1> QED BY <1>3, <1>5, <1>6, <1>7 DEF IInv

\* The rows of a poll that is done are whole.
LEMMA DoneIsWhole ==
  ASSUME IInv, NEW s \in Slots, Done(s)
  PROVE  /\ out[s] # <<>> /\ DOMAIN out[s] = Places /\ Len(out[s]) = Len(Cards)
         /\ \A i \in Places : out[s][i] \in Row /\ out[s][i].host = Cards[i]
<1>1. DOMAIN at[s] = Places
  BY Seats DEF Done, Busy, IInv, TypeOK
<1>2. out[s] \in [Places -> Row \cup {Blank}]
  BY DEF IInv, TypeOK
<1>3. out[s] # <<>> /\ Len(out[s]) = Len(Cards)
  BY <1>2, CardsAreHosts
<1> QED BY <1>1, <1>2, <1>3 DEF Done, IInv, Filled

LEMMA UpdatedKeeps == ASSUME IInv, NEW s \in Slots, Updated(s) PROVE IInv'
<1>1. Open /\ Done(s) /\ inFlight' = FALSE /\ rows' = out[s]
      /\ UNCHANGED <<selectedHost, current, exit>>
      /\ at' = [at EXCEPT ![s] = Idle] /\ out' = [out EXCEPT ![s] = Fresh]
      /\ dashSelected' = IF dashSelected > Len(rows') THEN Len(rows') ELSE dashSelected
  BY DEF Updated, Show, Tui
<1>2. TypeOK'
  <2>1. at' \in [Slots -> {Idle} \cup [Places -> At]]
    BY <1>1 DEF IInv, TypeOK
  <2>2. out' \in [Slots -> [Places -> Row \cup {Blank}]]
    BY <1>1 DEF Fresh, IInv, TypeOK
  <2>3. dashSelected' \in Places
    BY <1>1, DoneIsWhole, CardsAreHosts DEF IInv, TypeOK
  <2> QED BY <1>1, <2>1, <2>2, <2>3 DEF IInv, TypeOK
<1>3. Busy(s) /\ \A t \in Slots : Busy(t)' <=> Busy(t) /\ t # s
  BY <1>1, Seats DEF Busy, Done, IInv, TypeOK
<1>4. NoPileUp'
  BY <1>1, <1>3 DEF IInv, NoPileUp, Open
<1>5. RowsWhole'
  BY <1>1, DoneIsWhole DEF RowsWhole
<1>6. Filled'
  BY <1>1, Seats DEF IInv, Filled, TypeOK
<1>7. QuietRender'
  BY <1>1 DEF QuietRender
<1> QED BY <1>2, <1>4, <1>5, <1>6, <1>7 DEF IInv

LEMMA RenderKeeps == ASSUME IInv, NEW s \in Slots, Render(s) PROVE IInv'
<1>1. Printing /\ Done(s) /\ rows' = out[s]
      /\ UNCHANGED <<inFlight, dashSelected, selectedHost, current>>
      /\ at' = [at EXCEPT ![s] = Idle] /\ out' = [out EXCEPT ![s] = Fresh]
  BY DEF Render, screens
<1>2. TypeOK'
  <2>1. at' \in [Slots -> {Idle} \cup [Places -> At]]
    BY <1>1 DEF IInv, TypeOK
  <2>2. out' \in [Slots -> [Places -> Row \cup {Blank}]]
    BY <1>1 DEF Fresh, IInv, TypeOK
  <2> QED BY <1>1, <2>1, <2>2 DEF IInv, TypeOK
<1>3. \A t \in Slots : Busy(t)' => Busy(t)
  BY <1>1, Seats DEF Busy, IInv, TypeOK
<1>4. NoPileUp'
  <2>1. Open /\ ~inFlight
    BY <1>1 DEF Render, IInv, QuietRender
  <2> QED BY <1>1, <1>3, <2>1 DEF IInv, NoPileUp
<1>5. RowsWhole'
  BY <1>1, DoneIsWhole DEF RowsWhole
<1>6. Filled'
  BY <1>1, Seats DEF IInv, Filled, TypeOK
<1>7. QuietRender'
  BY <1>1 DEF IInv, QuietRender, Printing
<1> QED BY <1>2, <1>4, <1>5, <1>6, <1>7 DEF IInv

LEMMA UiKeeps == ASSUME IInv, Ui PROVE IInv'
<1>1. ~Printing /\ UNCHANGED <<at, out, inFlight, rows, exit>>
  BY DEF Ui, Switch, Esc, Move, Enter, MoveHost, EnterHost, polls, Tui
<1>2. rows = <<>> \/ (DOMAIN rows = Places /\ \A i \in Places : rows[i].host \in 1 .. NHosts)
  BY DEF IInv, RowsWhole, Row
<1>3. Shown # 0 => dashSelected \in DOMAIN rows
  BY DEF Shown
<1>4. dashSelected' \in Places /\ selectedHost' \in 1 .. NHosts
  BY <1>2, <1>3 DEF Ui, Switch, Esc, Move, Enter, MoveHost, EnterHost, Shown, IInv, TypeOK
<1>5. current' \in {"Dashboard", "Hosts", "Host", "Help"}
  BY <1>1 DEF Ui, Switch, Esc, Move, Enter, MoveHost, EnterHost, Tabs, Back, IInv, TypeOK, Printing
<1>6. TypeOK'
  BY <1>1, <1>4, <1>5 DEF IInv, TypeOK
<1>7. QuietRender'
  BY <1>5 DEF QuietRender, Printing
<1> QED BY <1>1, <1>6, <1>7 DEF IInv, NoPileUp, RowsWhole, Filled, Busy, Open

\* The session ends, and with it what the polls have found.
LEMMA EndKeeps ==
  ASSUME IInv, Leave \/ (Interrupt /\ current = "status") PROVE IInv'
<1>1. at' = [s \in Slots |-> Idle] /\ out' = [s \in Slots |-> Fresh]
      /\ UNCHANGED <<inFlight, rows, dashSelected, selectedHost, current>>
  BY DEF Leave, Interrupt, screens
<1>2. ~Open'
  BY DEF Leave, Interrupt, Actions, Quit, Open, NoExit
<1> QED BY <1>1, <1>2, Seats
        DEF IInv, TypeOK, NoPileUp, RowsWhole, Filled, Fresh, QuietRender, Printing

LEMMA SignalKeeps ==
  ASSUME IInv, Stop \/ (Interrupt /\ current # "status") PROVE IInv'
<1>1. /\ UNCHANGED <<at, out, inFlight, rows, dashSelected, selectedHost>>
      /\ current' \in {current, "interrupted"} /\ Printing
  BY DEF Stop, Interrupt, polls, screens, Printing
<1>2. Open' => Open
  BY DEF Stop, Interrupt, Open, Quit, NoExit
<1>3. TypeOK'
  BY <1>1 DEF IInv, TypeOK
<1> QED BY <1>1, <1>2, <1>3 DEF IInv, NoPileUp, RowsWhole, Filled, Busy, QuietRender

LEMMA NextIInv == IInv /\ [Next]_vars => IInv'
<1> SUFFICES ASSUME IInv, [Next]_vars PROVE IInv'
  OBVIOUS
<1>1. CASE Next
  BY <1>1, HostKeeps, DispatchKeeps, AgainKeeps, UpdatedKeeps, RenderKeeps, UiKeeps, EndKeeps,
     SignalKeeps
  DEF Next, Tick, Refresh, Ui
<1>2. CASE UNCHANGED vars
  BY <1>2 DEF vars, polls, screens, IInv, TypeOK, NoPileUp, RowsWhole, Filled, Busy, Open,
              QuietRender, Printing
<1> QED BY <1>1, <1>2

LEMMA Invariance == Spec => []IInv
BY InitIInv, NextIInv, PTL DEF Spec

\* Types and cursors, for any inventory (rootModel).
THEOREM Typing == Spec => []TypeOK
<1>1. IInv => TypeOK
  BY DEF IInv
<1> QED BY <1>1, Invariance, PTL

\* Never more than two polls, whatever the keys and the timers (model.go:127).
THEOREM PollsBounded == Spec => []NoPileUp
<1>1. IInv => NoPileUp
  BY DEF IInv
<1> QED BY <1>1, Invariance, PTL

\* `status', with --watch or without, has one poll at a time, which the dashboard
\* has not (runStatus: the loop waits for a poll before it looks at the ticker).
THEOREM PrintsOneAtATime == Spec => [](Open /\ Printing => NoOverlap)
<1>1. IInv => (Open /\ Printing => NoOverlap)
  BY DEF IInv, NoPileUp, QuietRender, NoOverlap
<1> QED BY <1>1, Invariance, PTL

\* What is on the screen is a finished row for each server (Poll).
THEOREM RowsAreWhole == Spec => []RowsWhole
<1>1. IInv => RowsWhole
  BY DEF IInv
<1> QED BY <1>1, Invariance, PTL

\* The two halves of CursorStays, for one step.
Stays ==
  /\ rows # <<>> /\ rows' # rows => rows'[dashSelected'].host = Shown
  /\ current = "Dashboard" /\ current' = "Host" => selectedHost' = Shown

LEMMA StepStays == IInv /\ [Next]_vars => Stays
<1> SUFFICES ASSUME IInv, [Next]_vars PROVE Stays
  OBVIOUS
<1>1. ASSUME NEW s \in Slots, Updated(s) \/ Render(s) PROVE Stays
  <2>1. /\ rows' = out[s] /\ current' = current
        /\ \/ dashSelected' = IF dashSelected > Len(rows') THEN Len(rows') ELSE dashSelected
           \/ dashSelected' = dashSelected
    BY <1>1 DEF Updated, Render, Show, screens
  <2>2. DOMAIN out[s] = Places /\ Len(out[s]) = Len(Cards)
        /\ \A i \in Places : out[s][i].host = Cards[i]
    BY <1>1, DoneIsWhole DEF Updated, Render
  <2>3. dashSelected \in Places
    BY DEF IInv, TypeOK
  <2>4. dashSelected' = dashSelected
    BY <2>1, <2>2, <2>3, CardsAreHosts
  <2>5. rows # <<>> => Shown = Cards[dashSelected]
    BY <2>3 DEF IInv, RowsWhole, Shown
  <2> QED BY <2>1, <2>2, <2>3, <2>4, <2>5 DEF Stays
<1>2. CASE Ui
  BY <1>2 DEF Ui, Switch, Esc, Move, Enter, MoveHost, EnterHost, Tabs, Back, Stays
<1>3. CASE \E s \in Slots : \E i \in Places : HostStep(s, i)
  BY <1>3 DEF HostStep, screens, Stays
<1>4. CASE Dispatch \/ Again \/ Leave \/ Interrupt \/ Stop
  BY <1>4 DEF Dispatch, Again, Leave, Interrupt, Stop, screens, Stays
<1>5. CASE UNCHANGED vars
  BY <1>5 DEF vars, screens, Stays
<1> QED BY <1>1, <1>2, <1>3, <1>4, <1>5 DEF Next, Tick, Refresh, Ui

\* A refresh leaves the cursor on its host, and enter opens that host
\* (dashboardUpdatedMsg, syncSelectionFromCard).
THEOREM CursorIsKept == Spec => CursorStays
<1>1. Stays <=> /\ rows # <<>> /\ rows' # rows => rows'[dashSelected'].host = Shown
                /\ current = "Dashboard" /\ current' = "Host" => selectedHost' = Shown
  BY DEF Stays
<1> QED BY <1>1, Invariance, StepStays, PTL DEF Spec, CursorStays
=============================================================================
