---------------------------- MODULE FanOutProofs ----------------------------
(***************************************************************************)
(* Theorems about SshExecutor and FanOut, for any callers, hosts, accounts,*)
(* concurrency and number of commands.  Of the executor: it implements     *)
(* ConnectionPool, the cache hands out one connection per key, none is     *)
(* left open behind Close, and none is closed in use when a caller that    *)
(* closes its connection shares its host with no other.  Of the commands:  *)
(* they use the executor as SshExecutor says, so what is proved of it      *)
(* holds under each of them; no more hosts are at work than --concurrency  *)
(* allows; a backup reported as done is whole, and a failed one leaves no  *)
(* partial file unless Close failed.                                       *)
(***************************************************************************)
EXTENDS FanOut, FiniteSetTheorems, TLAPS

-----------------------------------------------------------------------------
(* The executor, for any callers.                                          *)

\* What the cache holds was dialled for its key and by a caller past Insert.
CacheInv ==
  \A k \in Keys : conns[k] # NoConn =>
    /\ KeyOf[conns[k]] = k
    /\ pc[conns[k]] \in Using \cup Over

\* A caller at work holds the connection that is cached for its key.
HeldInv ==
  \A c \in Callers :
    /\ pc[c] \in Using => held[c] = Cached(c) /\ held[c] # NoConn
    /\ pc[c] \notin Using => held[c] = NoConn

\* An open connection is on its way into the cache or in it.
OpenInv ==
  \A c \in Callers : client[c] = "open" => pc[c] = "insert" \/ Cached(c) = c

\* What is about to be cached has not been closed.
FreshInv == \A c \in Callers : pc[c] = "insert" => client[c] # "closed"

ClosedInv == closed => \A c \in Callers : pc[c] \in Over /\ client[c] # "open"

Inv == TypeOK /\ CacheInv /\ HeldInv /\ OpenInv /\ FreshInv /\ ClosedInv

\* No caller that closes its connection has the host of another caller.
CloserAlone ==
  \A c \in Closers, d \in Callers : KeyOf[c] = KeyOf[d] => c = d

\* A cached connection was closed only by a caller that is over.
CloserInv ==
  \A k \in Keys : conns[k] # NoConn /\ client[conns[k]] = "closed" =>
    \E c \in Closers : KeyOf[c] = k /\ pc[c] \in Over

USE DEF Using, Over, Places

\* Every step keeps the type invariant.
LEMMA TypeStep == TypeOK /\ HeldInv /\ [Next]_vars => TypeOK'
<1> SUFFICES ASSUME TypeOK, HeldInv, [Next]_vars PROVE TypeOK'
  OBVIOUS
<1> USE ExecutorAssumption DEF TypeOK
<1>1. ASSUME NEW c \in Callers, Lookup(c) PROVE TypeOK'
  BY <1>1 DEF Lookup, Goto, Cached
<1>2. ASSUME NEW c \in Callers, Connect(c) PROVE TypeOK'
  BY <1>2 DEF Connect, Goto
<1>3. ASSUME NEW c \in Callers, Handshake(c) PROVE TypeOK'
  BY <1>3 DEF Handshake, Goto
<1>4. ASSUME NEW c \in Callers, Insert(c) PROVE TypeOK'
  BY <1>4 DEF Insert, Goto, Cached
<1>5. ASSUME NEW c \in Callers, OpenSession(c) PROVE TypeOK'
  BY <1>5 DEF OpenSession, Goto
<1>6. ASSUME NEW c \in Callers, StartCommand(c) PROVE TypeOK'
  BY <1>6 DEF StartCommand, Goto
<1>7. ASSUME NEW c \in Callers, SessionFails(c) PROVE TypeOK'
  BY <1>7 DEF SessionFails, Leave, Goto
<1>8. ASSUME NEW c \in Callers, Finish(c) PROVE TypeOK'
  BY <1>8 DEF Finish, Leave, Goto
<1>9. ASSUME NEW c \in Callers, RemoteEnds(c) PROVE TypeOK'
  BY <1>9 DEF RemoteEnds
<1>10. ASSUME NEW c \in Callers, WaitReturns(c) PROVE TypeOK'
  BY <1>10 DEF WaitReturns, Leave, Goto
<1>11. ASSUME NEW c \in Callers, Expire(c) PROVE TypeOK'
  BY <1>11 DEF Expire
<1>12. ASSUME NEW c \in Callers, Cancel(c) PROVE TypeOK'
  BY <1>12 DEF Cancel, Goto
<1>13. ASSUME NEW c \in Callers, GiveUp(c) PROVE TypeOK'
  BY <1>13 DEF GiveUp, Leave, Goto
<1>14. ASSUME NEW c \in Callers, PeerDrops(c) PROVE TypeOK'
  BY <1>14 DEF PeerDrops
<1>15. CASE Close
  BY <1>15 DEF Close
<1>16. CASE UNCHANGED vars
  BY <1>16 DEF vars
<1>17. QED
  BY <1>1, <1>2, <1>3, <1>4, <1>5, <1>6, <1>7, <1>8, <1>9, <1>10, <1>11, <1>12,
     <1>13, <1>14, <1>15, <1>16
  DEF Next, Local, Answered

\* A caller that returns keeps the cache in order.
LEMMA LeaveKeeps ==
  ASSUME Inv, NEW c \in Callers, pc[c] \in Using,
         NEW o \in Over, Leave(c, o), UNCHANGED <<conns, closed>>
  PROVE  CacheInv' /\ HeldInv' /\ OpenInv' /\ FreshInv' /\ ClosedInv'
<1> USE ExecutorAssumption DEF Inv, TypeOK, Leave, Goto
<1>1. held[c] \in Callers /\ pc[held[c]] \in Using \cup Over
  <2>1. held[c] = conns[KeyOf[c]] /\ held[c] # NoConn /\ KeyOf[c] \in Keys
    BY DEF HeldInv, Cached
  <2>2. QED
    BY <2>1 DEF CacheInv
<1>2. CacheInv' /\ HeldInv'
  BY DEF CacheInv, HeldInv, Cached
<1>3. OpenInv' /\ ClosedInv'
  BY DEF OpenInv, ClosedInv, Cached
<1>4. FreshInv'
  BY <1>1 DEF FreshInv
<1>5. QED
  BY <1>2, <1>3, <1>4

\* A caller that moves on with its connection, or without one, does too.
LEMMA MoveKeeps ==
  ASSUME Inv, NEW c \in Callers, NEW place \in Places, Goto(c, place),
         pc[c] \in Using <=> place \in Using, pc[c] \notin Over,
         "insert" \notin {place, pc[c]},
         UNCHANGED <<conns, client, held, closed>>
  PROVE  CacheInv' /\ HeldInv' /\ OpenInv' /\ FreshInv' /\ ClosedInv'
  BY ExecutorAssumption
  DEF Inv, TypeOK, CacheInv, HeldInv, OpenInv, FreshInv, ClosedInv, Cached, Goto

\* Every step keeps the invariant.
LEMMA InvStep == Inv /\ [Next]_vars => Inv'
<1> SUFFICES ASSUME Inv, [Next]_vars PROVE Inv'
  OBVIOUS
<1> DEFINE Goal == CacheInv' /\ HeldInv' /\ OpenInv' /\ FreshInv' /\ ClosedInv'
<1>0. TypeOK'
  BY TypeStep DEF Inv
<1>1. ASSUME NEW c \in Callers, Lookup(c) PROVE Goal
  BY <1>1, ExecutorAssumption
  DEF Lookup, Goto, Inv, TypeOK, CacheInv, HeldInv, OpenInv, FreshInv, ClosedInv, Cached
<1>2. ASSUME NEW c \in Callers, Connect(c) PROVE Goal
  BY <1>2, MoveKeeps DEF Connect
<1>3. ASSUME NEW c \in Callers, Handshake(c) PROVE Goal
  BY <1>3, ExecutorAssumption
  DEF Handshake, Goto, Inv, TypeOK, CacheInv, HeldInv, OpenInv, FreshInv, ClosedInv, Cached
<1>4. ASSUME NEW c \in Callers, Insert(c) PROVE Goal
  <2>1. CASE Cached(c) # NoConn
    BY <1>4, <2>1, ExecutorAssumption
    DEF Insert, Goto, Inv, TypeOK, CacheInv, HeldInv, OpenInv, FreshInv, ClosedInv, Cached
  <2>2. CASE Cached(c) = NoConn
    <3>1. /\ conns' = [conns EXCEPT ![KeyOf[c]] = c] /\ pc' = [pc EXCEPT ![c] = "session"]
          /\ held' = [held EXCEPT ![c] = c] /\ UNCHANGED <<client, closed>>
          /\ pc[c] = "insert" /\ conns[KeyOf[c]] = NoConn /\ c # NoConn
      BY <1>4, <2>2, ExecutorAssumption DEF Insert, Goto, Cached
    <3>2. CacheInv'
      BY <3>1, ExecutorAssumption DEF Inv, TypeOK, CacheInv
    <3>3. HeldInv'
      BY <3>1, ExecutorAssumption DEF Inv, TypeOK, HeldInv, Cached
    <3>4. OpenInv'
      BY <3>1, ExecutorAssumption DEF Inv, TypeOK, OpenInv, Cached
    <3>5. FreshInv' /\ ClosedInv'
      BY <3>1, ExecutorAssumption DEF Inv, TypeOK, FreshInv, ClosedInv
    <3>6. QED
      BY <3>2, <3>3, <3>4, <3>5
  <2>3. QED
    BY <2>1, <2>2
<1>5. ASSUME NEW c \in Callers, OpenSession(c) PROVE Goal
  BY <1>5, MoveKeeps DEF OpenSession
<1>6. ASSUME NEW c \in Callers, StartCommand(c) PROVE Goal
  BY <1>6, MoveKeeps DEF StartCommand
<1>7. ASSUME NEW c \in Callers, SessionFails(c) PROVE Goal
  BY <1>7, LeaveKeeps DEF SessionFails
<1>8. ASSUME NEW c \in Callers, Finish(c) PROVE Goal
  BY <1>8, LeaveKeeps DEF Finish
<1>9. ASSUME NEW c \in Callers, RemoteEnds(c) \/ Expire(c) PROVE Goal
  BY <1>9
  DEF RemoteEnds, Expire, Inv, CacheInv, HeldInv, OpenInv, FreshInv, ClosedInv, Cached
<1>10. ASSUME NEW c \in Callers, WaitReturns(c) PROVE Goal
  BY <1>10, LeaveKeeps, MoveKeeps DEF WaitReturns
<1>11. ASSUME NEW c \in Callers, Cancel(c) PROVE Goal
  BY <1>11, MoveKeeps DEF Cancel
<1>12. ASSUME NEW c \in Callers, GiveUp(c) PROVE Goal
  BY <1>12, LeaveKeeps DEF GiveUp
<1>13. ASSUME NEW c \in Callers, PeerDrops(c) PROVE Goal
  BY <1>13
  DEF PeerDrops, Inv, TypeOK, CacheInv, HeldInv, OpenInv, FreshInv, ClosedInv, Cached
<1>14. CASE Close
  BY <1>14, ExecutorAssumption
  DEF Close, Inv, TypeOK, CacheInv, HeldInv, OpenInv, FreshInv, ClosedInv, Cached
<1>15. CASE UNCHANGED vars
  BY <1>15 DEF vars, Inv, TypeOK, CacheInv, HeldInv, OpenInv, FreshInv, ClosedInv, Cached
<1>16. QED
  BY <1>0, <1>1, <1>2, <1>3, <1>4, <1>5, <1>6, <1>7, <1>8, <1>9, <1>10, <1>11,
     <1>12, <1>13, <1>14, <1>15
  DEF Next, Local, Answered, Inv

\* The invariant holds in every reachable state.
THEOREM Invariant == Spec => []Inv
<1>1. Init => TypeOK
  <2> SUFFICES ASSUME Init PROVE TypeOK
    OBVIOUS
  <2>1. remote \in [Callers -> BOOLEAN] /\ closed \in BOOLEAN
    BY Zenon DEF Init
  <2>2. QED
    BY <2>1, ExecutorAssumption DEF Init, TypeOK
<1>2. Init => CacheInv /\ HeldInv /\ OpenInv /\ FreshInv
  BY ExecutorAssumption DEF Init, CacheInv, HeldInv, OpenInv, FreshInv
<1>3. Init => ClosedInv
  BY Zenon DEF Init, ClosedInv
<1>4. Init => Inv
  BY <1>1, <1>2, <1>3 DEF Inv
<1>5. QED
  BY <1>4, InvStep, PTL DEF Spec

\* Every reachable state is well typed.
THEOREM TypeCorrect == Spec => []TypeOK
  BY Invariant, PTL DEF Inv

\* Two callers of one key never hold different connections.
THEOREM HandsOutOne == Spec => []OneConnection
<1>1. Inv => OneConnection
  BY DEF Inv, HeldInv, OneConnection, Cached
<1>2. QED
  BY <1>1, Invariant, PTL

\* Nothing is open behind a closed executor: the connection that loses the race to
\* the cache is closed on the spot.
THEOREM ClosesAll == Spec => []NoLeak
<1>1. Inv => NoLeak
  BY DEF Inv, ClosedInv, NoLeak
<1>2. QED
  BY <1>1, Invariant, PTL
-----------------------------------------------------------------------------
(* The executor is a pool.                                                 *)

\* The open connections of the pool.
Live == {c \in Callers : client[c] = "open" /\ Cached(c) = c}

\* What happens around the cache does not concern the pool: a connection is in it
\* from its insertion on, so that handshakes, and the end of one that lost the race,
\* go unseen.
LEMMA OutsideThePool ==
  ASSUME Inv, UNCHANGED <<conns, held, closed>>,
         \A c \in Callers : Cached(c) = c => client'[c] = client[c]
  PROVE  UNCHANGED Promise!pool
<1>1. Live' = Live
  BY DEF Live, Cached
<1>2. QED
  BY <1>1 DEF Live, Promise!pool

\* A caller that returns gives back what it holds, and closes it if it is a closer.
LEMMA LeaveReturns ==
  ASSUME Inv, NEW c \in Callers, pc[c] \in Using, NEW o, Leave(c, o), UNCHANGED <<conns, closed>>
  PROVE  Promise!Return(c)
<1>1. held[c] \in Callers /\ held[c] # NoConn /\ Cached(held[c]) = held[c]
  <2>1. held[c] = conns[KeyOf[c]] /\ held[c] # NoConn /\ KeyOf[c] \in Keys
    BY ExecutorAssumption DEF Inv, HeldInv, Cached
  <2>2. QED
    BY <2>1 DEF Inv, TypeOK, CacheInv, Cached
<1>2. Live' = IF c \in Closers THEN Live \ {held[c]} ELSE Live
  BY <1>1 DEF Leave, Live, Cached, Inv, TypeOK
<1>3. QED
  BY <1>1, <1>2 DEF Leave, Live, Promise!Return

\* Every step of the executor is one of the pool, or none: a look-up that hits and an
\* insertion take a connection, all ways back return it.
LEMMA PoolStep == Inv /\ [Next]_vars => [Promise!Next]_(Promise!pool)
<1> SUFFICES ASSUME Inv, [Next]_vars PROVE Promise!Next \/ UNCHANGED Promise!pool
  OBVIOUS
<1>1. ASSUME NEW c \in Callers, Lookup(c) PROVE Promise!Take(c) \/ UNCHANGED Promise!pool
  <2>1. CASE Cached(c) = NoConn
    BY <1>1, <2>1, OutsideThePool DEF Lookup
  <2>2. CASE Cached(c) # NoConn
    <3>1. ~closed /\ held[c] = NoConn
      BY <1>1 DEF Lookup, Inv, ClosedInv, HeldInv
    <3>2. Live' = Live
      BY <1>1 DEF Lookup, Live, Cached
    <3>3. QED
      BY <1>1, <2>2, <3>1, <3>2 DEF Lookup, Cached, Live, Promise!Take
  <2>3. QED
    BY <2>1, <2>2
<1>2. ASSUME NEW c \in Callers, Handshake(c) PROVE UNCHANGED Promise!pool
  <2>1. \A d \in Callers : Cached(d) = d => d # c
    BY <1>2, ExecutorAssumption DEF Handshake, Inv, CacheInv, Cached
  <2>2. QED
    BY <1>2, <2>1, OutsideThePool DEF Handshake, Inv, TypeOK
<1>3. ASSUME NEW c \in Callers, Insert(c) PROVE Promise!Take(c)
  <2>1. ~closed /\ held[c] = NoConn /\ Cached(c) # c
    BY <1>3, ExecutorAssumption DEF Insert, Inv, ClosedInv, HeldInv, CacheInv, Cached
  <2>2. CASE Cached(c) # NoConn
    <3>1. Live' = Live
      BY <1>3, <2>1, <2>2 DEF Insert, Live, Cached, Inv, TypeOK
    <3>2. QED
      BY <1>3, <2>1, <2>2, <3>1 DEF Insert, Cached, Live, Promise!Take
  <2>3. CASE Cached(c) = NoConn
    <3>1. conns' = [conns EXCEPT ![KeyOf[c]] = c] /\ held' = [held EXCEPT ![c] = c]
          /\ UNCHANGED <<client, closed>> /\ conns[KeyOf[c]] = NoConn
      BY <1>3, <2>3 DEF Insert, Cached
    <3>2. \A d \in Callers \ {c} : d \in Live' <=> d \in Live
      BY <3>1, ExecutorAssumption DEF Live, Cached, Inv, TypeOK
    <3>3. Live' = Live \/ Live' = Live \cup {c}
      <4>1. c \notin Live /\ Live \subseteq Callers /\ Live' \subseteq Callers
        BY <2>1 DEF Live
      <4>2. QED
        BY <3>2, <4>1
    <3>4. QED
      BY <2>1, <3>1, <3>3 DEF Live, Promise!Take
  <2>4. QED
    BY <2>2, <2>3
<1>4. ASSUME NEW c \in Callers,
             SessionFails(c) \/ Finish(c) \/ GiveUp(c) \/ (WaitReturns(c) /\ Leave(c, "failed"))
      PROVE  Promise!Return(c)
  BY <1>4, LeaveReturns DEF SessionFails, Finish, GiveUp, WaitReturns
<1>5. ASSUME NEW c \in Callers,
             \/ Connect(c) \/ OpenSession(c) \/ StartCommand(c) \/ RemoteEnds(c) \/ Expire(c)
             \/ Cancel(c) \/ (WaitReturns(c) /\ UNCHANGED <<client, held>>)
      PROVE  UNCHANGED Promise!pool
  BY <1>5, OutsideThePool
  DEF Connect, OpenSession, StartCommand, RemoteEnds, Expire, Cancel, WaitReturns
<1>6. ASSUME NEW c \in Callers, PeerDrops(c) PROVE Promise!Lose(c) \/ UNCHANGED Promise!pool
  <2>1. CASE Cached(c) = c
    <3>1. c \in Live /\ Live' = Live \ {c}
      BY <1>6, <2>1 DEF PeerDrops, Live, Cached, Inv, TypeOK
    <3>2. QED
      BY <1>6, <3>1 DEF PeerDrops, Live, Promise!Lose
  <2>2. CASE Cached(c) # c
    BY <1>6, <2>2, OutsideThePool DEF PeerDrops, Inv, TypeOK
  <2>3. QED
    BY <2>1, <2>2
<1>7. CASE Close
  <2>1. \A c \in Callers : held[c] = NoConn
    BY <1>7 DEF Close, Inv, HeldInv
  <2>2. Live' = {}
    BY <1>7, ExecutorAssumption DEF Close, Live, Cached
  <2>3. QED
    BY <1>7, <2>1, <2>2 DEF Close, Live, Promise!Close, Promise!Next
<1>8. CASE UNCHANGED vars
  BY <1>8, OutsideThePool DEF vars
<1>9. QED
  BY <1>1, <1>2, <1>3, <1>4, <1>5, <1>6, <1>7, <1>8
  DEF Next, Local, Answered, WaitReturns, Promise!Next

\* Callers are served as if Open were a single step: the executor implements
\* ConnectionPool.
THEOREM PoolRefinement == Spec => KeepsPromise
<1>1. Init => Promise!Init
  BY ExecutorAssumption DEF Init, Promise!Init
<1>2. QED
  BY <1>1, PoolStep, Invariant, PTL DEF Spec, KeepsPromise, Promise!Spec

-----------------------------------------------------------------------------
(* Callers that close their connection.                                    *)

\* While a closer is alone on its host, no caller's return closes the connection of
\* a caller at work.
LEMMA LeaveKeepsOpen ==
  ASSUME Inv, CloserInv, CloserAlone, NEW c \in Callers, pc[c] \in Using,
         NEW o \in Over, Leave(c, o), UNCHANGED conns
  PROVE  CloserInv'
<1> SUFFICES ASSUME NEW k \in Keys, conns[k] # NoConn, client'[conns[k]] = "closed"
             PROVE  \E d \in Closers : KeyOf[d] = k /\ pc'[d] \in Over
  BY DEF CloserInv
<1>1. conns[k] \in Callers /\ KeyOf[conns[k]] = k
  BY DEF Inv, TypeOK, CacheInv
<1>2. CASE client[conns[k]] = "closed"
  <2>1. PICK d \in Closers : KeyOf[d] = k /\ pc[d] \in Over
    BY <1>2 DEF CloserInv
  <2>2. pc'[d] = pc[d]
    BY <2>1, ExecutorAssumption DEF Leave, Goto, Inv, TypeOK
  <2>3. QED
    BY <2>1, <2>2
<1>3. CASE client[conns[k]] # "closed"
  <2>1. c \in Closers /\ held[c] = conns[k]
    BY <1>1, <1>3, ExecutorAssumption DEF Leave, Inv, TypeOK
  <2>2. KeyOf[c] = k
    BY <2>1, <1>1, ExecutorAssumption DEF Inv, TypeOK, HeldInv, CacheInv, Cached
  <2>3. pc'[c] \in Over
    BY DEF Leave, Goto, Inv, TypeOK
  <2>4. QED
    BY <2>1, <2>2, <2>3
<1>4. QED
  BY <1>2, <1>3

\* So does every other step.
LEMMA CloserStep == Inv /\ CloserInv /\ CloserAlone /\ [Next]_vars => CloserInv'
<1> SUFFICES ASSUME Inv, CloserInv, CloserAlone, [Next]_vars PROVE CloserInv'
  OBVIOUS
<1> USE ExecutorAssumption
<1>1. ASSUME NEW c \in Callers,
             SessionFails(c) \/ Finish(c) \/ GiveUp(c) \/ (WaitReturns(c) /\ Leave(c, "failed"))
      PROVE  CloserInv'
  BY <1>1, LeaveKeepsOpen DEF SessionFails, Finish, GiveUp, WaitReturns
<1>2. ASSUME NEW c \in Callers, NEW place \in Places, Goto(c, place), pc[c] \notin Over,
             UNCHANGED <<conns, client>>
      PROVE  CloserInv'
  BY <1>2 DEF Goto, Inv, TypeOK, CloserInv
<1>3. ASSUME NEW c \in Callers,
             Lookup(c) \/ Connect(c) \/ OpenSession(c) \/ StartCommand(c) \/ Cancel(c)
      PROVE  CloserInv'
  BY <1>3, <1>2 DEF Lookup, Connect, OpenSession, StartCommand, Cancel
<1>4. ASSUME NEW c \in Callers, WaitReturns(c), Goto(c, "session"), UNCHANGED client
      PROVE  CloserInv'
  BY <1>4, <1>2 DEF WaitReturns
<1>5. ASSUME NEW c \in Callers, Handshake(c) PROVE CloserInv'
  BY <1>5 DEF Handshake, Goto, Inv, TypeOK, CacheInv, CloserInv
<1>6. ASSUME NEW c \in Callers, Insert(c) PROVE CloserInv'
  <2>1. CASE Cached(c) # NoConn
    BY <1>6, <2>1 DEF Insert, Goto, Inv, TypeOK, CacheInv, CloserInv
  <2>2. CASE Cached(c) = NoConn
    <3>1. client[c] # "closed"
      BY <1>6 DEF Insert, Inv, FreshInv
    <3>2. QED
      BY <1>6, <2>2, <3>1 DEF Insert, Goto, Cached, Inv, TypeOK, CacheInv, CloserInv
  <2>3. QED
    BY <2>1, <2>2
<1>7. ASSUME NEW c \in Callers, RemoteEnds(c) \/ Expire(c) PROVE CloserInv'
  BY <1>7 DEF RemoteEnds, Expire, CloserInv
<1>8. ASSUME NEW c \in Callers, PeerDrops(c) PROVE CloserInv'
  BY <1>8 DEF PeerDrops, Inv, TypeOK, CloserInv
<1>9. CASE Close
  BY <1>9 DEF Close, CloserInv
<1>10. CASE UNCHANGED vars
  BY <1>10 DEF vars, CloserInv
<1>11. QED
  BY <1>1, <1>3, <1>4, <1>5, <1>6, <1>7, <1>8, <1>9, <1>10
  DEF Next, Local, Answered, WaitReturns

\* A connection is never closed under a caller at work, when those that close their
\* connection share their host with no other entry of the inventory.
THEOREM SafeToClose == ASSUME CloserAlone PROVE Spec => []NotClosedInUse
<1>1. Init => CloserInv
  BY ExecutorAssumption DEF Init, CloserInv
<1>2. Inv /\ CloserInv => NotClosedInUse
  <2> SUFFICES ASSUME Inv, CloserInv, NEW c \in Callers, pc[c] \in Using,
                      client[held[c]] = "closed"
               PROVE  FALSE
    BY DEF NotClosedInUse
  <2>1. PICK d \in Closers : KeyOf[d] = KeyOf[c] /\ pc[d] \in Over
    BY ExecutorAssumption DEF Inv, HeldInv, Cached, CloserInv
  <2>2. d = c
    BY <2>1, ExecutorAssumption DEF CloserAlone
  <2>3. QED
    BY <2>1, <2>2
<1>3. QED
  BY <1>1, <1>2, CloserStep, Invariant, PTL DEF Spec

-----------------------------------------------------------------------------
(* The commands.                                                           *)

\* A tarball is partial only while its host is at work or when Close failed.
PartialInv ==
  \A c \in Callers : file[c] = "partial" =>
    /\ command = "backup"
    /\ pc[c] \in Using \/ (pc[c] \in Over /\ result[c] = "write")

\* A host that is done is over, and its tarball whole.
DoneInv ==
  \A c \in Callers : result[c] = "ok" =>
    /\ pc[c] \in Over
    /\ command = "backup" => file[c] = "whole"

\* A host that has lost a byte of its tarball is at work still, or not done.
SpoiledInv ==
  \A c \in spoiled :
    /\ command = "backup"
    /\ pc[c] \in {"run", "term"} \/ (pc[c] \in Over /\ result[c] # "ok")

\* The exit code is 0 only when every host is done.
ExitInv == exit = "ok" => \A c \in targets : result[c] = "ok"

FanVarsOK ==
  /\ command \in Commands /\ targets \subseteq Callers /\ begun \subseteq targets
  /\ file \in [Callers -> {"absent", "earlier", "partial", "whole"}]
  /\ spoiled \subseteq Callers
  /\ result \in [Callers -> {"none", "ok", "ssh", "create", "pipe", "write", "check"}]
  /\ exit \in {"none", "ok", "error", "partial"}

FanInv == FanVarsOK /\ PartialInv /\ DoneInv /\ SpoiledInv /\ ExitInv

-----------------------------------------------------------------------------
(* The executor under the commands.                                        *)

\* Every step of a command is a step of the executor's specification or leaves the
\* executor alone.
LEMMA FanStepIsStep == [FanNext]_allVars => [Next]_vars
<1> SUFFICES ASSUME [FanNext]_allVars PROVE [Next]_vars
  OBVIOUS
<1>1. CASE Spawn \/ Report \/ UNCHANGED allVars
  BY <1>1 DEF Spawn, Report, allVars
<1>2. CASE CloseAll
  BY <1>2 DEF CloseAll, Next
<1>3. ASSUME NEW c \in Callers, Own(c) PROVE [Next]_vars
  <2>1. CASE Local(c)
    BY <2>1 DEF Next
  <2>2. CASE CreateFile(c)
    BY <2>2 DEF CreateFile
  <2>3. QED
    BY <1>3, <2>1, <2>2
    DEF Own, Local, CreateFails, Wait, Abandon, Return
<1>4. ASSUME NEW c \in Callers, ByPeer(c) PROVE [Next]_vars
  BY <1>4 DEF ByPeer, Next, Answered
<1>5. ASSUME NEW c \in Callers, Timer(c) \/ Outside(c) PROVE [Next]_vars
  BY <1>5 DEF Timer, Outside, Next, Local
<1>6. ASSUME NEW c \in Callers, WriteFails(c) PROVE [Next]_vars
  BY <1>6 DEF WriteFails
<1>7. QED
  BY <1>1, <1>2, <1>3, <1>4, <1>5, <1>6 DEF FanNext

\* backup, shutdown test, logs and the runs over the roles use the executor as
\* module SshExecutor says, which is what its theorems are about.
THEOREM UsesExecutor == FanSpec => Spec
<1>1. FanInit => Init
  BY DEF FanInit
<1>2. QED
  BY <1>1, FanStepIsStep, PTL DEF FanSpec, Spec

-----------------------------------------------------------------------------
(* The files.                                                              *)

\* A host that is over, with its outcome recorded and its file handled as the code
\* does, keeps the invariant.
LEMMA OutcomeKeeps ==
  ASSUME TypeOK, FanInv, NEW c \in Callers, pc[c] \notin Over, NEW o \in Over, Goto(c, o),
         NEW r \in {"ok", "ssh", "create", "pipe", "write", "check"}, Outcome(c, r),
         r = "ok" => c \notin spoiled,
         \/ /\ UNCHANGED file
            /\ r \notin {"ok", "write"} => pc[c] \notin Using \/ command # "backup"
                                             \/ file[c] # "partial"
            /\ r = "ok" => command # "backup"
         \/ /\ command = "backup" /\ r # "ok" /\ file' = [file EXCEPT ![c] = "absent"]
         \/ /\ command = "backup" /\ r = "ok" /\ file' = [file EXCEPT ![c] = "whole"]
  PROVE  FanInv'
<1> USE DEF FanInv, FanVarsOK, TypeOK, Goto, Outcome
<1>1. FanVarsOK'
  OBVIOUS
<1>2. PartialInv'
  BY DEF PartialInv
<1>3. DoneInv'
  BY DEF DoneInv
<1>4. ExitInv'
  BY DEF ExitInv, DoneInv
<1>5. SpoiledInv'
  BY DEF SpoiledInv
<1>6. QED
  BY <1>1, <1>2, <1>3, <1>4, <1>5

\* A step that leaves the files and outcomes alone, and at most moves a host that
\* has no session yet or stays at work, keeps it too.
LEMMA QuietKeeps ==
  ASSUME TypeOK, FanInv, Quietly,
         \/ UNCHANGED pc
         \/ \E c \in Callers, place \in Places :
              /\ Goto(c, place) /\ pc[c] \notin Over
              /\ pc[c] \in Using => place \in Using
              /\ c \in spoiled => place = "term"
  PROVE  FanInv'
<1> USE DEF FanInv, FanVarsOK, TypeOK, Quietly, fanVars, Goto
<1>1. FanVarsOK' /\ ExitInv'
  BY DEF ExitInv
<1>2. PartialInv' /\ DoneInv'
  BY DEF PartialInv, DoneInv
<1>3. SpoiledInv'
  BY DEF SpoiledInv
<1>4. QED
  BY <1>1, <1>2, <1>3

\* Opening a connection.
LEMMA OpenKeeps ==
  ASSUME TypeOK, FanInv, NEW c \in Callers,
         Lookup(c) \/ Connect(c) \/ Handshake(c) \/ Insert(c), Opening(c)
  PROVE  FanInv'
<1>1. PICK place \in Places : Goto(c, place)
  BY DEF Lookup, Connect, Handshake, Insert
<1>2. pc[c] \notin Over /\ pc[c] \notin Using /\ pc'[c] = place /\ c \notin spoiled
  BY <1>1 DEF Lookup, Connect, Handshake, Insert, Goto, TypeOK, FanInv, SpoiledInv
<1>3. CASE place = "failed"
  BY <1>1, <1>2, <1>3, OutcomeKeeps DEF Opening
<1>4. CASE place # "failed"
  BY <1>1, <1>2, <1>4, QuietKeeps DEF Opening
<1>5. QED
  BY <1>3, <1>4

\* A command that is started, runs, and fails or ends.
LEMMA StreamKeeps ==
  ASSUME TypeOK, FanInv, NEW c \in Callers,
         SessionFails(c) \/ WaitReturns(c), Streaming(c),
         c \in spoiled => pc'[c] = "failed"
  PROVE  FanInv'
<1>1. pc[c] \in Using /\ (Goto(c, "failed") \/ Goto(c, "session"))
  BY DEF SessionFails, WaitReturns, Leave
<1>2. CASE Goto(c, "failed")
  <2>1. pc'[c] = "failed" /\ Outcome(c, "pipe")
    BY <1>2 DEF Goto, TypeOK, Streaming, Broken
  <2>2. CASE command = "backup"
    BY <1>1, <1>2, <2>1, <2>2, OutcomeKeeps DEF Streaming, Broken
  <2>3. CASE command # "backup"
    <3>1. UNCHANGED file
      BY <2>1, <2>3 DEF Streaming, Broken
    <3>2. QED
      BY <1>1, <1>2, <2>1, <2>3, <3>1, OutcomeKeeps
  <2>4. QED
    BY <2>2, <2>3
<1>3. CASE Goto(c, "session")
  <2>1. pc'[c] = "session" /\ c \notin spoiled
    BY <1>3 DEF Goto, TypeOK
  <2>2. QED
    BY <1>1, <1>3, <2>1, QuietKeeps DEF Streaming
<1>4. QED
  BY <1>1, <1>2, <1>3

\* The other steps by which a host is over.
LEMMA EndKeeps ==
  ASSUME TypeOK, FanInv, NEW c \in Callers, Abandon(c) \/ Return(c) \/ CreateFails(c)
  PROVE  FanInv'
<1>1. CASE Abandon(c)
  <2>1. pc[c] \notin Over /\ Goto(c, "failed")
    BY <1>1 DEF Abandon, GiveUp, Leave
  <2>2. CASE command = "backup"
    BY <1>1, <2>1, <2>2, OutcomeKeeps DEF Abandon, Broken
  <2>3. CASE command # "backup"
    <3>1. UNCHANGED file /\ (Outcome(c, "ok") \/ Outcome(c, "pipe"))
      BY <1>1, <2>3 DEF Abandon, Broken
    <3>2. c \notin spoiled
      BY <2>3 DEF FanInv, SpoiledInv
    <3>3. QED
      BY <2>1, <2>3, <3>1, <3>2, OutcomeKeeps
  <2>4. QED
    BY <2>2, <2>3
<1>2. CASE Return(c)
  <2>1. pc[c] \notin Over /\ Goto(c, "done")
    BY <1>2 DEF Return, Finish, Leave
  <2>2. \/ command = "backup" /\ Outcome(c, "ok") /\ file' = [file EXCEPT ![c] = "whole"]
        \/ command = "backup" /\ Outcome(c, "write") /\ UNCHANGED file
        \/ command = "test" /\ Outcome(c, "check") /\ UNCHANGED file
        \/ command # "backup" /\ Outcome(c, "ok") /\ UNCHANGED file
    BY <1>2 DEF Return
  <2>3. c \notin spoiled
    BY <1>2 DEF Return, Finish, FanInv, SpoiledInv
  <2>4. QED
    BY <2>1, <2>2, <2>3, OutcomeKeeps
<1>3. CASE CreateFails(c)
  <2>1. pc[c] \notin Over /\ Goto(c, "done") /\ file[c] # "partial"
    BY <1>3 DEF CreateFails, Finish, Leave
  <2>2. QED
    BY <1>3, <2>1, OutcomeKeeps DEF CreateFails
<1>4. QED
  BY <1>1, <1>2, <1>3

\* Every step of a command keeps the invariant.
LEMMA FanInvStep == Inv /\ FanInv /\ [FanNext]_allVars => FanInv'
<1> SUFFICES ASSUME Inv, FanInv, [FanNext]_allVars PROVE FanInv'
  OBVIOUS
<1>0. TypeOK
  BY DEF Inv
<1>1. CASE Spawn
  BY <1>1 DEF Spawn, FanInv, FanVarsOK, PartialInv, DoneInv, SpoiledInv, ExitInv, vars
<1>2. CASE Report
  BY <1>2 DEF Report, FanInv, FanVarsOK, PartialInv, DoneInv, SpoiledInv, ExitInv, vars
<1>3. CASE CloseAll
  BY <1>0, <1>3, QuietKeeps DEF CloseAll, Close, Quietly
<1>4. ASSUME NEW c \in Callers, CreateFile(c) PROVE FanInv'
  <2>1. /\ command = "backup" /\ pc[c] = "session"
        /\ file' = [file EXCEPT ![c] = "partial"]
        /\ UNCHANGED <<pc, command, targets, begun, spoiled, result, exit>>
    BY <1>4 DEF CreateFile, vars
  <2>2. FanVarsOK' /\ ExitInv'
    BY <2>1 DEF FanInv, FanVarsOK, ExitInv
  <2>3. PartialInv'
    BY <2>1 DEF FanInv, FanVarsOK, PartialInv
  <2>4. DoneInv'
    BY <2>1 DEF FanInv, FanVarsOK, DoneInv
  <2>5. SpoiledInv'
    BY <2>1 DEF FanInv, SpoiledInv
  <2>6. QED
    BY <2>2, <2>3, <2>4, <2>5 DEF FanInv
<1>5. ASSUME NEW c \in Callers, Cancel(c), Quietly PROVE FanInv'
  <2>1. Goto(c, "term") /\ pc[c] = "run" /\ "term" \in Places
    BY <1>5 DEF Cancel
  <2>2. QED
    BY <1>0, <1>5, <2>1, QuietKeeps
<1>6. ASSUME NEW c \in Callers, Own(c) PROVE FanInv'
  <2>1. CASE SessionFails(c) /\ Streaming(c)
    <3>1. pc'[c] = "failed"
      BY <1>0, <2>1 DEF SessionFails, Leave, Goto, TypeOK
    <3>2. QED
      BY <1>0, <2>1, <3>1, StreamKeeps
  <2>2. CASE Wait(c)
    BY <1>0, <2>2, StreamKeeps DEF Wait
  <2>3. QED
    BY <1>0, <1>4, <1>5, <1>6, <2>1, <2>2, OpenKeeps, EndKeeps DEF Own
<1>7. ASSUME NEW c \in Callers, ByPeer(c) PROVE FanInv'
  <2>1. ASSUME OpenSession(c) \/ StartCommand(c), Quietly PROVE FanInv'
    <3>1. c \notin spoiled
      BY <2>1 DEF OpenSession, StartCommand, FanInv, SpoiledInv
    <3>2. QED
      BY <1>0, <2>1, <3>1, QuietKeeps DEF OpenSession, StartCommand
  <2>2. QED
    BY <1>0, <1>7, <2>1, OpenKeeps DEF ByPeer
<1>8. ASSUME NEW c \in Callers, Timer(c) \/ Outside(c) PROVE FanInv'
  BY <1>0, <1>8, QuietKeeps DEF Timer, Outside, Expire, RemoteEnds, PeerDrops
<1>9. ASSUME NEW c \in Callers, WriteFails(c) PROVE FanInv'
  BY <1>9 DEF WriteFails, FanInv, FanVarsOK, PartialInv, DoneInv, SpoiledInv, ExitInv, vars
<1>10. CASE UNCHANGED allVars
  BY <1>0, <1>10, QuietKeeps DEF allVars, vars, Quietly
<1>11. QED
  BY <1>1, <1>2, <1>3, <1>6, <1>7, <1>8, <1>9, <1>10 DEF FanNext

\* The invariant of the files holds in every reachable state.
THEOREM FanInvariant == FanSpec => []FanInv
<1>1. FanInit => FanVarsOK
  <2> SUFFICES ASSUME FanInit PROVE FanVarsOK
    OBVIOUS
  <2>1. command \in {"roles", "backup", "test", "logs"}
    BY FanOutAssumption DEF FanInit
  <2>2. targets \subseteq Callers
    BY <2>1, ExecutorAssumption DEF FanInit, Choices
  <2>3. begun \subseteq targets
    BY DEF FanInit
  <2>4. /\ file \in [Callers -> {"absent", "earlier", "partial", "whole"}]
        /\ result \in [Callers -> {"none", "ok", "ssh", "create", "pipe", "write", "check"}]
    BY DEF FanInit
  <2>5. QED
    BY <2>2, <2>3, <2>4 DEF FanInit, FanVarsOK
<1>2. FanInit => PartialInv /\ DoneInv /\ SpoiledInv /\ ExitInv
  BY DEF FanInit, PartialInv, DoneInv, SpoiledInv, ExitInv
<1>3. FanInit => FanInv
  BY <1>1, <1>2 DEF FanInv
<1>4. QED
  BY <1>3, FanInvStep, UsesExecutor, Invariant, PTL DEF FanSpec

\* Every reachable state is well typed.
THEOREM FanTypeCorrect == FanSpec => []FanTypeOK
<1>1. Inv /\ FanInv => FanTypeOK
  BY DEF Inv, FanInv, FanVarsOK, FanTypeOK
<1>2. QED
  BY <1>1, FanInvariant, UsesExecutor, Invariant, PTL

\* What a backup reports as done is whole, a backup that exits with 0 has a whole
\* tarball of every host, and a host that is over has left a partial tarball only
\* if closing the file failed, however many hosts there are and however they fail.
THEOREM BackupsAsReported == FanSpec => []FilesAsReported
<1>1. FanInv => FilesAsReported
  BY DEF FanInv, FanVarsOK, PartialInv, DoneInv, SpoiledInv, ExitInv, FilesAsReported
<1>2. QED
  BY <1>1, FanInvariant, PTL

\* Under any of the commands no connection is closed in use, when those that close
\* theirs have their hosts to themselves.
THEOREM FanSafeToClose == ASSUME CloserAlone PROVE FanSpec => []NotClosedInUse
  BY SafeToClose, UsesExecutor, PTL

-----------------------------------------------------------------------------
(* The tokens.                                                             *)

\* No more hosts are at work than --concurrency allows, and one in a shutdown test
\* (runBackup, runShutdownTest).
Bounded == command # "roles" => Cardinality(Working) <= Parallel

\* A host that is over stays so: no step takes it up again.
LEMMA OverForGood == TypeOK /\ [Next]_vars => \A c \in Callers : pc[c] \in Over => pc'[c] \in Over
<1> SUFFICES ASSUME TypeOK, [Next]_vars, NEW c \in Callers, pc[c] \in Over PROVE pc'[c] \in Over
  OBVIOUS
<1> USE DEF TypeOK, Goto
<1>1. ASSUME NEW d \in Callers, Local(d) \/ Answered(d) PROVE pc'[c] \in Over
  BY <1>1
  DEF Local, Answered, Lookup, Connect, Handshake, Insert, OpenSession, StartCommand,
      SessionFails, Finish, WaitReturns, Expire, Cancel, GiveUp, Leave
<1>2. ASSUME NEW d \in Callers, RemoteEnds(d) \/ PeerDrops(d) PROVE pc'[c] \in Over
  BY <1>2 DEF RemoteEnds, PeerDrops
<1>3. CASE Close \/ UNCHANGED vars
  BY <1>3 DEF Close, vars
<1>4. QED
  BY <1>1, <1>2, <1>3 DEF Next

\* Spawn alone puts a host to work.
LEMMA WorkSpreads ==
  ASSUME FanTypeOK, [FanNext]_allVars
  PROVE  /\ UNCHANGED <<command, targets>>
         /\ begun' = begun \/ (Spawn /\ \E c \in Callers : begun' = begun \cup {c} /\ UNCHANGED pc)
<1> USE DEF allVars, fanVars, Quietly, Outcome
<1>1. CASE Spawn
  BY <1>1 DEF Spawn, FanTypeOK, vars
<1>2. CASE Report \/ CloseAll \/ UNCHANGED allVars
  BY <1>2 DEF Report, CloseAll
<1>3. ASSUME NEW c \in Callers, Own(c) PROVE UNCHANGED <<command, targets, begun>>
  BY <1>3 DEF Own, Opening, CreateFile, CreateFails, Streaming, Broken, Wait, Abandon, Return
<1>4. ASSUME NEW c \in Callers, ByPeer(c) \/ Timer(c) \/ WriteFails(c) \/ Outside(c)
      PROVE  UNCHANGED <<command, targets, begun>>
  BY <1>4 DEF ByPeer, Opening, Timer, WriteFails, Outside
<1>5. QED
  BY <1>1, <1>2, <1>3, <1>4 DEF FanNext

\* So there are never more at work than tokens: Spawn takes one that is left, and a
\* host gives its own back for good.
LEMMA BoundStep == FanTypeOK /\ Bounded /\ [FanNext]_allVars => Bounded'
<1> SUFFICES ASSUME FanTypeOK, Bounded, [FanNext]_allVars, command' # "roles"
             PROVE  Cardinality(Working') <= Parallel'
  BY DEF Bounded
<1>1. UNCHANGED <<command, targets>> /\ Parallel' = Parallel
  BY WorkSpreads DEF Parallel
<1>2. IsFiniteSet(Working) /\ Working \subseteq Callers
  BY FanOutAssumption, FS_Subset DEF Working, FanTypeOK
<1>3. Cardinality(Working) \in Nat /\ Cardinality(targets) \in Nat
  BY <1>2, FanOutAssumption, FS_Subset, FS_CardinalityType DEF FanTypeOK
<1>4. Parallel \in Int
  BY <1>3, FanOutAssumption DEF Parallel
<1>5. CASE begun' = begun
  <2>1. \A c \in Callers : pc[c] \in Over => pc'[c] \in Over
    BY FanStepIsStep, OverForGood DEF FanTypeOK
  <2>2. Working' \subseteq Working
    BY <1>5, <2>1 DEF Working, FanTypeOK
  <2>3. Cardinality(Working') <= Cardinality(Working)
    BY <1>2, <2>2, FS_Subset
  <2>4. Cardinality(Working') \in Nat
    BY <1>2, <2>2, FS_Subset, FS_CardinalityType
  <2>5. QED
    BY <1>1, <1>3, <1>4, <2>3, <2>4 DEF Bounded
<1>6. CASE Spawn
  <2>1. PICK c \in Callers : begun' = begun \cup {c} /\ UNCHANGED pc
    BY <1>6 DEF Spawn, FanTypeOK, vars
  <2>2. Working' \subseteq Working \cup {c}
    BY <2>1 DEF Working
  <2>3. /\ IsFiniteSet(Working \cup {c})
        /\ Cardinality(Working \cup {c}) \in {Cardinality(Working), Cardinality(Working) + 1}
    BY <1>2, FS_AddElement
  <2>4. Cardinality(Working') <= Cardinality(Working \cup {c}) /\ Cardinality(Working') \in Nat
    BY <2>2, <2>3, FS_Subset, FS_CardinalityType
  <2>5. Cardinality(Working) < Parallel
    BY <1>6 DEF Spawn
  <2>6. QED
    BY <1>1, <1>3, <1>4, <2>3, <2>4, <2>5
<1>7. QED
  BY <1>5, <1>6, WorkSpreads

\* --concurrency is kept, for any number of hosts, and the checks of a shutdown test
\* are made one after the other, however connections fail or hang.
THEOREM HostsAtWork == FanSpec => []Bounded
<1>1. FanInit => Bounded
  <2> SUFFICES ASSUME FanInit, command # "roles" PROVE Cardinality(Working) <= Parallel
    BY DEF Bounded
  <2>1. Cardinality(Working) = 0
    BY FS_EmptySet DEF FanInit, Working
  <2>2. targets \subseteq Callers
    BY ExecutorAssumption, FanOutAssumption DEF FanInit, Choices
  <2>3. Cardinality(targets) \in Nat
    BY <2>2, FanOutAssumption, FS_Subset, FS_CardinalityType
  <2>4. QED
    BY <2>1, <2>3, FanOutAssumption DEF Parallel
<1>2. QED
  BY <1>1, BoundStep, FanTypeCorrect, PTL DEF FanSpec
=============================================================================
