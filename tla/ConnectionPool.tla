---------------------------- MODULE ConnectionPool ----------------------------
(***************************************************************************)
(* What the SSH executor promises its callers, without dials, races or     *)
(* sessions: a pool with one connection for each key, which a caller takes *)
(* in one step, whoever else is asking for it; and which nobody puts       *)
(* another connection in the place of.                                     *)
(***************************************************************************)

CONSTANTS
  Callers,      \* who takes connections
  Keys,         \* what connections are for
  KeyOf,        \* the key of each caller
  Closers,      \* callers that close what they have taken
  NoConn        \* no connection

VARIABLES
  conns,        \* the connection of each key, named by the caller it was made for
  live,         \* those that are open
  held,         \* what each caller has taken
  closed        \* is the pool closed?

pool == <<conns, live, held, closed>>

Init ==
  /\ conns = [k \in Keys |-> NoConn] /\ live = {}
  /\ held = [c \in Callers |-> NoConn]
  /\ closed = FALSE

\* The first to ask gets a connection of its own, which may be lost at once.
Take(c) ==
  /\ ~closed /\ held[c] = NoConn
  /\ LET k == KeyOf[c]
     IN  /\ held' = [held EXCEPT ![c] = IF conns[k] = NoConn THEN c ELSE conns[k]]
         /\ IF conns[k] = NoConn
            THEN conns' = [conns EXCEPT ![k] = c] /\ live' \in {live, live \cup {c}}
            ELSE UNCHANGED <<conns, live>>
  /\ UNCHANGED closed

\* The connection stays where it is, closed or not.
Return(c) ==
  /\ held[c] # NoConn
  /\ held' = [held EXCEPT ![c] = NoConn]
  /\ live' = IF c \in Closers THEN live \ {held[c]} ELSE live
  /\ UNCHANGED <<conns, closed>>

Lose(c) ==
  /\ c \in live /\ live' = live \ {c}
  /\ UNCHANGED <<conns, held, closed>>

\* Nobody is left without what it has taken.
Close ==
  /\ ~closed /\ closed' = TRUE
  /\ \A c \in Callers : held[c] = NoConn
  /\ conns' = [k \in Keys |-> NoConn] /\ live' = {}
  /\ UNCHANGED held

Next == Close \/ \E c \in Callers : Take(c) \/ Return(c) \/ Lose(c)

Spec == Init /\ [][Next]_pool
=============================================================================
