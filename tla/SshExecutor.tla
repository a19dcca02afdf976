----------------------------- MODULE SshExecutor -----------------------------
(***************************************************************************)
(* The SSH executor (internal/ssh/executor.go): a cache of connections     *)
(* that the goroutines of one homelab-nut command share.  A caller opens a *)
(* connection, runs commands on it one after the other, and, in some       *)
(* commands of the CLI, closes it; the executor is closed when all callers *)
(* are over.                                                               *)
(*                                                                         *)
(* A connection is named by the caller that dialled it.  The mutex makes   *)
(* the look-up, the insertion and Close atomic; everything between them    *)
(* interleaves.                                                            *)
(***************************************************************************)
EXTENDS Integers

CONSTANTS
  Callers,      \* goroutines, one for each inventory host worked on
  Keys,         \* user@address
  KeyOf,        \* the key of each caller's host; two hosts may have the same
  Closers,      \* callers that defer conn.Close()
  Deadline,     \* callers whose context, or CommandTimeout, has a deadline
  MaxCommands,  \* bound: commands of one caller
  NoConn        \* no connection

ASSUME ExecutorAssumption ==
  /\ KeyOf \in [Callers -> Keys]
  /\ Closers \subseteq Callers
  /\ Deadline \subseteq Callers
  /\ MaxCommands \in Nat
  /\ NoConn \notin Callers

VARIABLES
  conns,        \* the cache: the connection of each key
  client,       \* state of the client of each connection
  auth,         \* "unknown", "ok", or "none": the cached result of authMethods
  pc,           \* where each caller is
  held,         \* the connection Open has returned to each caller
  remote,       \* is the caller's command running on the host?
  expired,      \* callers whose deadline has passed
  commands,     \* commands each caller has started
  closed        \* has the executor been closed?

vars == <<conns, client, auth, pc, held, remote, expired, commands, closed>>

Using == {"session", "start", "run", "term"}
Over  == {"done", "failed"}
Places == {"idle", "dial", "handshake", "insert"} \cup Using \cup Over

Cached(c) == conns[KeyOf[c]]

\* The connection a caller holds still works.
Works(c) == client[held[c]] = "open"

\* A command is about some of the hosts; the others are over from the beginning.
Init ==
  /\ conns = [k \in Keys |-> NoConn]
  /\ client = [c \in Callers |-> "none"]
  /\ auth = "unknown"
  /\ \E targets \in SUBSET Callers :
       pc = [c \in Callers |-> IF c \in targets THEN "idle" ELSE "done"]
  /\ held = [c \in Callers |-> NoConn]
  /\ remote = [c \in Callers |-> FALSE]
  /\ expired = {}
  /\ commands = [c \in Callers |-> 0]
  /\ closed = FALSE

Goto(c, place) == pc' = [pc EXCEPT ![c] = place]

-----------------------------------------------------------------------------
(* Open.                                                                   *)

Lookup(c) ==
  /\ pc[c] = "idle"
  /\ IF Cached(c) # NoConn
     THEN Goto(c, "session") /\ held' = [held EXCEPT ![c] = Cached(c)]
     ELSE Goto(c, "dial") /\ UNCHANGED held
  /\ UNCHANGED <<conns, client, auth, remote, expired, commands, closed>>

\* Authentication is resolved once, failure included; then the TCP connection is
\* made, which is the part of the dial that ConnectTimeout bounds.
Connect(c) ==
  /\ pc[c] = "dial"
  /\ auth' \in (IF auth = "unknown" THEN {"ok", "none"} ELSE {auth})
  /\ \/ Goto(c, "failed")
     \/ auth' = "ok" /\ Goto(c, "handshake")
  /\ UNCHANGED <<conns, client, held, remote, expired, commands, closed>>

\* The peer answers the handshake or refuses it; nothing bounds the wait.
Handshake(c) ==
  /\ pc[c] = "handshake"
  /\ \/ Goto(c, "insert") /\ client' = [client EXCEPT ![c] = "open"]
     \/ Goto(c, "failed") /\ UNCHANGED client
  /\ UNCHANGED <<conns, auth, held, remote, expired, commands, closed>>

\* Mutant: the cache is not looked up again.
InsertBlindly(c) ==
  /\ pc[c] = "insert"
  /\ Goto(c, "session")
  /\ conns' = [conns EXCEPT ![KeyOf[c]] = c]
  /\ held' = [held EXCEPT ![c] = c]
  /\ UNCHANGED <<client, auth, remote, expired, commands, closed>>

\* Mutant: the connection that lost the race is not closed.
InsertAndForget(c) ==
  /\ pc[c] = "insert"
  /\ Goto(c, "session")
  /\ IF Cached(c) # NoConn
     THEN held' = [held EXCEPT ![c] = Cached(c)] /\ UNCHANGED conns
     ELSE held' = [held EXCEPT ![c] = c] /\ conns' = [conns EXCEPT ![KeyOf[c]] = c]
  /\ UNCHANGED <<client, auth, remote, expired, commands, closed>>

\* Mutant: the cached connection is closed in place of the new one.
InsertClosingCached(c) ==
  /\ pc[c] = "insert"
  /\ Goto(c, "session")
  /\ client' = IF Cached(c) # NoConn THEN [client EXCEPT ![Cached(c)] = "closed"]
                                    ELSE client
  /\ conns' = [conns EXCEPT ![KeyOf[c]] = c]
  /\ held' = [held EXCEPT ![c] = c]
  /\ UNCHANGED <<auth, remote, expired, commands, closed>>

\* Another caller may have dialled the same key in the meantime.
Insert(c) ==
  /\ pc[c] = "insert"
  /\ Goto(c, "session")
  /\ IF Cached(c) # NoConn
     THEN /\ client' = [client EXCEPT ![c] = "closed"]
          /\ held' = [held EXCEPT ![c] = Cached(c)]
          /\ UNCHANGED conns
     ELSE /\ conns' = [conns EXCEPT ![KeyOf[c]] = c]
          /\ held' = [held EXCEPT ![c] = c]
          /\ UNCHANGED client
  /\ UNCHANGED <<auth, remote, expired, commands, closed>>

-----------------------------------------------------------------------------
(* Run, Pipe and Stream.                                                   *)

\* The caller returns.  Closing the connection leaves it in the cache.
Leave(c, outcome) ==
  /\ Goto(c, outcome)
  /\ held' = [held EXCEPT ![c] = NoConn]
  /\ client' = IF c \in Closers THEN [client EXCEPT ![held[c]] = "closed"]
                                ELSE client

\* NewSession waits for the peer without a deadline.
OpenSession(c) ==
  /\ pc[c] = "session"
  /\ commands[c] < MaxCommands /\ Works(c)
  /\ Goto(c, "start")
  /\ commands' = [commands EXCEPT ![c] = @ + 1]
  /\ UNCHANGED <<conns, client, auth, held, remote, expired, closed>>

\* So does sess.Start.
StartCommand(c) ==
  /\ pc[c] = "start" /\ Works(c)
  /\ Goto(c, "run")
  /\ remote' = [remote EXCEPT ![c] = TRUE]
  /\ UNCHANGED <<conns, client, auth, held, expired, commands, closed>>

\* No session can be had on a connection that is gone.
SessionFails(c) ==
  /\ pc[c] \in {"session", "start"} /\ ~Works(c)
  /\ Leave(c, "failed")
  /\ UNCHANGED <<conns, auth, remote, expired, commands, closed>>

\* The caller has run its last command, or found that it has none to run.
Finish(c) ==
  /\ pc[c] = "session"
  /\ Leave(c, "done")
  /\ UNCHANGED <<conns, auth, remote, expired, commands, closed>>

RemoteEnds(c) ==
  /\ remote[c]
  /\ remote' = [remote EXCEPT ![c] = FALSE]
  /\ UNCHANGED <<conns, client, auth, pc, held, expired, commands, closed>>

\* sess.Wait returns: the command has ended, or the connection is gone.  A
\* command that failed may be the caller's last.
WaitReturns(c) ==
  /\ pc[c] = "run"
  /\ \/ /\ ~remote[c]
        /\ Goto(c, "session")
        /\ UNCHANGED <<client, held>>
     \/ /\ ~remote[c] \/ ~Works(c)
        /\ Leave(c, "failed")
  /\ UNCHANGED <<conns, auth, remote, expired, commands, closed>>

Expire(c) ==
  /\ c \in Deadline \ expired /\ pc[c] \notin Over
  /\ expired' = expired \cup {c}
  /\ UNCHANGED <<conns, client, auth, pc, held, remote, commands, closed>>

\* The context is done: SIGTERM is sent, which the command may ignore.
Cancel(c) ==
  /\ pc[c] = "run" /\ c \in expired
  /\ Goto(c, "term")
  /\ UNCHANGED <<conns, client, auth, held, remote, expired, commands, closed>>

\* Mutant: no limit on the wait for a command that was sent SIGTERM.
GiveUpWhenOver(c) ==
  /\ pc[c] = "term" /\ ~remote[c]
  /\ Leave(c, "failed")
  /\ UNCHANGED <<conns, auth, remote, expired, commands, closed>>

\* The command is over, or two seconds have passed.
GiveUp(c) ==
  /\ pc[c] = "term"
  /\ Leave(c, "failed")
  /\ UNCHANGED <<conns, auth, remote, expired, commands, closed>>

-----------------------------------------------------------------------------

\* The peer or the network drops a connection.  It stays in the cache.
PeerDrops(c) ==
  /\ client[c] = "open"
  /\ client' = [client EXCEPT ![c] = "lost"]
  /\ UNCHANGED <<conns, auth, pc, held, remote, expired, commands, closed>>

\* Mutant: the map of connections is dropped, not emptied.
CloseDroppingMap ==
  /\ ~closed
  /\ \A c \in Callers : pc[c] \in Over
  /\ closed' = TRUE
  /\ conns' = [k \in {} |-> NoConn]
  /\ client' = [c \in Callers |-> IF Cached(c) = c THEN "closed" ELSE client[c]]
  /\ UNCHANGED <<auth, pc, held, remote, expired, commands>>

\* Executor.Close, deferred by the command behind its wg.Wait().
Close ==
  /\ ~closed
  /\ \A c \in Callers : pc[c] \in Over
  /\ closed' = TRUE
  /\ conns' = [k \in Keys |-> NoConn]
  /\ client' = [c \in Callers |-> IF Cached(c) = c THEN "closed" ELSE client[c]]
  /\ UNCHANGED <<auth, pc, held, remote, expired, commands>>

\* What the program and its timers do without the peer.
Local(c) ==
  \/ Lookup(c) \/ Connect(c) \/ Insert(c) \/ SessionFails(c) \/ Finish(c)
  \/ WaitReturns(c) \/ Expire(c) \/ Cancel(c) \/ GiveUp(c)

\* What takes an answer of the peer.
Answered(c) == Handshake(c) \/ OpenSession(c) \/ StartCommand(c)

Next ==
  \/ \E c \in Callers : Local(c) \/ Answered(c) \/ RemoteEnds(c) \/ PeerDrops(c)
  \/ Close

Spec == Init /\ [][Next]_vars

\* The program runs and its timers fire; peers may never answer.
FairProgram == Spec /\ WF_vars(Close) /\ \A c \in Callers : WF_vars(Local(c))

\* Peers also complete handshakes, but may not answer on the connection.
FairDial == FairProgram /\ \A c \in Callers : WF_vars(Handshake(c))

-----------------------------------------------------------------------------
(* Properties.                                                             *)

TypeOK ==
  /\ conns \in [Keys -> Callers \cup {NoConn}]
  /\ client \in [Callers -> {"none", "open", "lost", "closed"}]
  /\ auth \in {"unknown", "ok", "none"}
  /\ pc \in [Callers -> Places]
  /\ held \in [Callers -> Callers \cup {NoConn}]
  /\ remote \in [Callers -> BOOLEAN]
  /\ expired \subseteq Callers
  /\ commands \in [Callers -> 0 .. MaxCommands]
  /\ closed \in BOOLEAN

-----------------------------------------------------------------------------
(* The promise.  A connection is in the pool from its insertion on.        *)

Promise == INSTANCE ConnectionPool WITH live <- {c \in Callers : client[c] = "open" /\ Cached(c) = c}

\* "Repeated calls for the same host return the cached *Connection": whoever dials
\* at the same time, callers are served as if Open were a single step.
KeepsPromise == Promise!Spec

\* Callers of one key that hold a connection hold the same one, also when both
\* dialled.
OneConnection ==
  \A c, d \in Callers :
    KeyOf[c] = KeyOf[d] /\ held[c] # NoConn /\ held[d] # NoConn
      => held[c] = held[d]

\* "Close shuts down every cached connection": when the executor has been closed,
\* no connection that was ever dialled is open.
NoLeak == closed => \A c \in Callers : client[c] # "open"

\* "Each host gets a dedicated connection": a connection is not closed by this
\* side while a caller works on it.
NotClosedInUse ==
  \A c \in Callers : pc[c] \in Using => client[held[c]] # "closed"

\* "ConnectTimeout caps the SSH handshake."
HandshakeIsCapped == \A c \in Callers : pc[c] = "handshake" ~> pc[c] # "handshake"

\* "shutdownTestTimeout caps connect + check time for a single host."
DeadlineCapsCall == \A c \in Deadline : c \in expired ~> pc[c] \in Over
=============================================================================
