-------------------------- MODULE FleetSetupProofs --------------------------
(***************************************************************************)
(* Passwords flow one way whatever is cut and exported, and a run without  *)
(* an error logs every consumer in if the server is left alone: for any    *)
(* number of clients, exporters, passwords and troubles.                   *)
(***************************************************************************)
EXTENDS FleetSetup, TLAPS

\* What a consumer may have been given: by the credentials file, or by a user.
Known == 0..creds \cup told

\* The ranges of the variables, what users know, and the password a script works with.
FlowInv ==
  /\ TypeOK
  /\ NeverAhead
  /\ told \subseteq {Foreign} \cup 1..generated
  /\ override \in {0} \cup told
  /\ script[Server] = "users" => pass[Server] = generated
  /\ script[Server] \in {"stop", "start", "creds"} => pass[Server] = users
  /\ \A c \in Consumers :
       /\ pass[c] \in Known
       /\ told = {} /\ script[c] \in {"install", "write"} => conf[c] <= pass[c]
       /\ told = {} => pass[c] \in 0..creds

\* The hosts of both kinds.
LEMMA HostKinds ==
  /\ Server \in Hosts /\ Server \notin Consumers
  /\ \A c \in Consumers : c \in Hosts /\ c # Server
  BY RolesAssumption DEF Hosts, Consumers

-----------------------------------------------------------------------------
\* Every step keeps the variables in their ranges.
LEMMA TypeStep ==
  ASSUME TypeOK, [Next]_vars
  PROVE  TypeOK'
<1> USE BoundAssumption, HostKinds DEF Passwords, Foreign
<1>1. CASE StartRun
  <2>1. override' \in Passwords /\ told' \subseteq Passwords
    <3>1. 0 \in Passwords /\ {Foreign} \cup 1..generated \subseteq Passwords
      BY DEF TypeOK
    <3>2. \/ override' = 0 /\ told' = told
          \/ \E p \in {Foreign} \cup 1..generated : override' = p /\ told' = told \cup {p}
      BY <1>1 DEF StartRun, Exported
    <3> QED BY <3>1, <3>2, Zenon DEF TypeOK
  <2>2. trouble' \in [Kinds -> Nat] /\ \A k \in Kinds : trouble'[k] <= MaxTroubles[k]
    BY <1>1 DEF TypeOK, StartRun, Exported, Trouble, Kinds
  <2> QED BY <1>1, <2>1, <2>2 DEF TypeOK, serverVars, consumerVars, StartRun
<1>2. CASE EndRun
  BY <1>2 DEF TypeOK, serverVars, consumerVars, runVars, envVars, EndRun
<1>3. ASSUME NEW h \in Hosts, Begin(h) PROVE TypeOK'
  BY <1>3 DEF TypeOK, serverVars, consumerVars, runVars, envVars, Begin
<1>4. CASE Generate
  <2>1. installed' \in [Hosts -> BOOLEAN]
    BY <1>4, Zenon DEF TypeOK, Generate, GoTo
  <2> QED BY <1>4, <2>1 DEF TypeOK, serverVars, consumerVars, runVars, envVars, Generate, GoTo
<1>5. CASE WriteUsers
  BY <1>5 DEF TypeOK, serverVars, consumerVars, runVars, envVars, WriteUsers, GoTo
<1>6. CASE StopServices
  <2>1. serving' \in BOOLEAN
    BY <1>6, Zenon DEF TypeOK, StopServices, GoTo
  <2> QED BY <1>6, <2>1 DEF TypeOK, serverVars, consumerVars, runVars, envVars, StopServices, GoTo
<1>7. CASE StartServices
  <2>1. serving' \in BOOLEAN
    BY <1>7, Zenon DEF TypeOK, StartServices, GoTo
  <2> QED BY <1>7, <2>1 DEF TypeOK, serverVars, consumerVars, runVars, envVars, StartServices, GoTo
<1>8. CASE WriteCreds
  BY <1>8 DEF TypeOK, serverVars, consumerVars, runVars, envVars, WriteCreds, GoTo
<1>9. ASSUME NEW c \in Consumers, Fetch(c) PROVE TypeOK'
  BY <1>9 DEF TypeOK, serverVars, consumerVars, runVars, envVars, Fetch, Resolved, GoTo, Fail
<1>10. ASSUME NEW c \in Consumers, Install(c) PROVE TypeOK'
  <2>1. installed' \in [Hosts -> BOOLEAN]
    BY <1>10, Zenon DEF TypeOK, Install, GoTo
  <2>2. active' \in [Consumers -> BOOLEAN]
    BY <1>10, Zenon DEF TypeOK, Install, GoTo
  <2> QED BY <1>10, <2>1, <2>2 DEF TypeOK, serverVars, consumerVars, runVars, envVars, Install, GoTo
<1>11. ASSUME NEW c \in Consumers, WriteConf(c) PROVE TypeOK'
  BY <1>11 DEF TypeOK, serverVars, consumerVars, runVars, envVars, WriteConf, GoTo
<1>12. ASSUME NEW c \in Consumers, RestartService(c) PROVE TypeOK'
  <2>1. active' \in [Consumers -> BOOLEAN]
    BY <1>12, Zenon DEF TypeOK, RestartService, GoTo
  <2> QED BY <1>12, <2>1 DEF TypeOK, serverVars, consumerVars, runVars, envVars, RestartService, GoTo
<1>13. ASSUME NEW c \in Consumers, Test(c) PROVE TypeOK'
  BY <1>13 DEF TypeOK, serverVars, consumerVars, runVars, envVars, Test, GoTo, Fail
<1>14. ASSUME NEW h \in Hosts, Cut(h) PROVE TypeOK'
  BY <1>14 DEF TypeOK, serverVars, consumerVars, runVars, envVars, Cut, Fail, Trouble, Kinds
<1>15. CASE ServerStops
  <2>1. serving' \in BOOLEAN
    BY <1>15, Zenon DEF TypeOK, ServerStops, Trouble, Kinds
  <2> QED BY <1>15, <2>1 DEF TypeOK, serverVars, consumerVars, runVars, envVars, ServerStops, Trouble, Kinds
<1>16. CASE ServerRestarts
  <2>1. serving' \in BOOLEAN
    BY <1>16, Zenon DEF TypeOK, ServerRestarts, Trouble, Kinds
  <2> QED BY <1>16, <2>1 DEF TypeOK, serverVars, consumerVars, runVars, envVars, ServerRestarts, Trouble, Kinds
<1>17. ASSUME NEW c \in Consumers, ConsumerRestarts(c) PROVE TypeOK'
  BY <1>17 DEF TypeOK, serverVars, consumerVars, runVars, envVars, ConsumerRestarts, Trouble, Kinds
<1>18. CASE UNCHANGED vars
  BY <1>18 DEF TypeOK, serverVars, consumerVars, runVars, envVars, vars
<1> QED BY <1>1, <1>2, <1>3, <1>4, <1>5, <1>6, <1>7, <1>8, <1>9, <1>10, <1>11, <1>12, <1>13, <1>14, <1>15, <1>16, <1>17, <1>18 DEF Next, HostStep, ServerStep, ConsumerStep, Outside

\* Every step lets passwords flow forward only.
LEMMA FlowStep ==
  ASSUME FlowInv, TypeOK', [Next]_vars
  PROVE  FlowInv'
<1> USE BoundAssumption, HostKinds DEF Passwords, Foreign, Known
<1>1. CASE StartRun
  BY <1>1 DEF FlowInv, NeverAhead, TypeOK, serverVars, consumerVars, runVars, envVars, StartRun, Exported
<1>2. CASE EndRun
  BY <1>2 DEF FlowInv, NeverAhead, TypeOK, serverVars, consumerVars, runVars, envVars, EndRun
<1>3. ASSUME NEW h \in Hosts, Begin(h) PROVE FlowInv'
  BY <1>3 DEF FlowInv, NeverAhead, TypeOK, serverVars, consumerVars, runVars, envVars, Begin
<1>4. CASE Generate
  BY <1>4 DEF FlowInv, NeverAhead, TypeOK, serverVars, consumerVars, runVars, envVars, Generate, GoTo
<1>5. CASE WriteUsers
  BY <1>5 DEF FlowInv, NeverAhead, TypeOK, serverVars, consumerVars, runVars, envVars, WriteUsers, GoTo
<1>6. CASE StopServices
  BY <1>6 DEF FlowInv, NeverAhead, TypeOK, serverVars, consumerVars, runVars, envVars, StopServices, GoTo
<1>7. CASE StartServices
  BY <1>7 DEF FlowInv, NeverAhead, TypeOK, serverVars, consumerVars, runVars, envVars, StartServices, GoTo
<1>8. CASE WriteCreds
  BY <1>8 DEF FlowInv, NeverAhead, TypeOK, serverVars, consumerVars, runVars, envVars, WriteCreds, GoTo
<1>9. ASSUME NEW c \in Consumers, Fetch(c) PROVE FlowInv'
  BY <1>9 DEF FlowInv, NeverAhead, TypeOK, serverVars, consumerVars, runVars, envVars, Fetch, Resolved, GoTo, Fail
<1>10. ASSUME NEW c \in Consumers, Install(c) PROVE FlowInv'
  BY <1>10 DEF FlowInv, NeverAhead, TypeOK, serverVars, consumerVars, runVars, envVars, Install, GoTo
<1>11. ASSUME NEW c \in Consumers, WriteConf(c) PROVE FlowInv'
  BY <1>11 DEF FlowInv, NeverAhead, TypeOK, serverVars, consumerVars, runVars, envVars, WriteConf, GoTo
<1>12. ASSUME NEW c \in Consumers, RestartService(c) PROVE FlowInv'
  BY <1>12 DEF FlowInv, NeverAhead, TypeOK, serverVars, consumerVars, runVars, envVars, RestartService, GoTo
<1>13. ASSUME NEW c \in Consumers, Test(c) PROVE FlowInv'
  BY <1>13 DEF FlowInv, NeverAhead, TypeOK, serverVars, consumerVars, runVars, envVars, Test, GoTo, Fail
<1>14. ASSUME NEW h \in Hosts, Cut(h) PROVE FlowInv'
  BY <1>14 DEF FlowInv, NeverAhead, TypeOK, serverVars, consumerVars, runVars, envVars, Cut, Fail, Trouble, Kinds
<1>15. CASE ServerStops
  BY <1>15 DEF FlowInv, NeverAhead, TypeOK, serverVars, consumerVars, runVars, envVars, ServerStops, Trouble, Kinds
<1>16. CASE ServerRestarts
  BY <1>16 DEF FlowInv, NeverAhead, TypeOK, serverVars, consumerVars, runVars, envVars, ServerRestarts, Trouble, Kinds
<1>17. ASSUME NEW c \in Consumers, ConsumerRestarts(c) PROVE FlowInv'
  BY <1>17 DEF FlowInv, NeverAhead, TypeOK, serverVars, consumerVars, runVars, envVars, ConsumerRestarts, Trouble, Kinds
<1>18. CASE UNCHANGED vars
  BY <1>18 DEF FlowInv, NeverAhead, TypeOK, serverVars, consumerVars, runVars, envVars, vars
<1> QED BY <1>1, <1>2, <1>3, <1>4, <1>5, <1>6, <1>7, <1>8, <1>9, <1>10, <1>11, <1>12, <1>13, <1>14, <1>15, <1>16, <1>17, <1>18 DEF Next, HostStep, ServerStep, ConsumerStep, Outside

THEOREM Flow == Spec => []FlowInv
<1>1. Init => FlowInv
  <2> SUFFICES ASSUME Init PROVE FlowInv
    OBVIOUS
  <2>1. TypeOK
    <3>1. /\ serving \in BOOLEAN
          /\ installed \in [Hosts -> BOOLEAN]
          /\ active \in [Consumers -> BOOLEAN]
      BY Zenon DEF Init
    <3> QED BY <3>1, BoundAssumption, HostKinds DEF Init, TypeOK, Passwords, Foreign
  <2> QED BY <2>1, HostKinds DEF Init, FlowInv, NeverAhead, Known
<1>2. FlowInv /\ [Next]_vars => FlowInv'
  BY TypeStep, FlowStep DEF FlowInv
<1> QED BY <1>1, <1>2, PTL DEF Spec

\* The variables stay in their ranges.
THEOREM TypeCorrect == Spec => []TypeOK
<1>1. FlowInv => TypeOK
  BY DEF FlowInv
<1> QED BY Flow, <1>1, PTL

\* No host is ever ahead of the server: a password is in upsd.users before it
\* is in the credentials file, and there before it is in a consumer's
\* configuration (setup-server.sh, setup-client.sh, setup-exporter.sh).
THEOREM PasswordsFlow == Spec => []NeverAhead
<1>1. FlowInv => NeverAhead
  BY DEF FlowInv
<1> QED BY Flow, <1>1, PTL

-----------------------------------------------------------------------------
\* A server that is left alone is set up once, and is in order from then on; what
\* users export is its one password.
ServerInv ==
  /\ generated = IF installed[Server] THEN 1 ELSE 0
  /\ creds \in {0, generated}
  /\ override \in {0, creds}
  /\ script[Server] = "generate" => ~installed[Server]
  /\ script[Server] \in {"users", "stop", "start", "creds"} => pass[Server] = generated
  /\ script[Server] \in {"none", "generate", "users", "stop", "start", "creds"}
  /\ script[Server] = "none" => users = creds /\ (installed[Server] => creds # 0)
  /\ script[Server] # "none" => creds = 0
  /\ script[Server] \in {"users", "stop", "start", "creds"} =>
       pass[Server] # 0 /\ installed[Server]
  /\ script[Server] \in {"start", "creds"} => users = pass[Server]
  /\ script[Server] = "stop" => users = pass[Server]
  /\ script[Server] = "creds" => serving /\ loaded = users
  /\ creds # 0 => installed[Server] /\ serving /\ loaded = creds

\* A consumer has the one password or none, and has it if its service runs.
ConsumerInv(c) ==
  /\ script[c] \in {"none", "fetch", "install", "write", "restart", "test"}
  /\ conf[c] \in {0, creds}
  /\ script[c] \in {"install", "write"} => creds # 0 /\ pass[c] = creds
  /\ script[c] = "restart" => creds # 0 /\ conf[c] = creds
  /\ script[c] = "test" => active[c]
  /\ active[c] => creds # 0 /\ conf[c] = creds /\ held[c] = creds
  /\ (run # "idle" /\ c \notin waiting /\ c \notin failed /\ script[c] = "none") => active[c]

\* A host is begun once a run, and a run ends behind the last script.
RunInv ==
  /\ \A h \in waiting : script[h] = "none"
  /\ run # "applying" => waiting = {} /\ \A h \in Hosts : script[h] = "none"
  /\ run = "ok" => failed = {}

CalmInv ==
  /\ TypeOK
  /\ ServerInv
  /\ \A c \in Consumers : ConsumerInv(c)
  /\ RunInv

\* What troubles there have been, there have been.
LEMMA CalmBefore ==
  ASSUME TypeOK, Calm', [Next]_vars
  PROVE  Calm
<1>1. ASSUME NEW k \in Kinds, Trouble(k), told \subseteq told' PROVE Calm
  BY <1>1 DEF Calm, Trouble, TypeOK, Kinds
<1>2. CASE Outside
  BY <1>1, <1>2 DEF Outside, Cut, ServerStops, ServerRestarts, ConsumerRestarts, Kinds, envVars
<1>3. CASE UNCHANGED <<told, trouble>>
  BY <1>3 DEF Calm
<1>4. CASE StartRun
  BY <1>1, <1>3, <1>4 DEF StartRun, Exported, Calm, Kinds
<1>5. CASE EndRun \/ \E h \in Hosts : HostStep(h)
  BY <1>3, <1>5 DEF EndRun, HostStep, Begin, ServerStep, Generate, WriteUsers,
     StopServices, StartServices, WriteCreds, ConsumerStep, Fetch, Install, WriteConf,
     RestartService, Test, envVars
<1> QED BY <1>2, <1>3, <1>4, <1>5 DEF Next, vars, envVars

\* With a server left alone every step keeps the server in order.
LEMMA ServerStepInv ==
  ASSUME Calm', CalmInv, [Next]_vars
  PROVE  ServerInv'
<1> USE HostKinds
<1>1. CASE StartRun
  BY <1>1 DEF CalmInv, ServerInv, RunInv, TypeOK, Calm, serverVars, consumerVars, runVars, envVars, StartRun, Exported
<1>2. CASE EndRun
  BY <1>2 DEF CalmInv, ServerInv, TypeOK, Calm, serverVars, consumerVars, runVars, envVars, EndRun
<1>3. ASSUME NEW h \in Hosts, Begin(h) PROVE ServerInv'
  BY <1>3 DEF CalmInv, ServerInv, RunInv, TypeOK, Begin, Detected, ServerDetected, serverVars, consumerVars, runVars, envVars
<1>4. CASE Generate
  BY <1>4 DEF CalmInv, ServerInv, TypeOK, Calm, serverVars, consumerVars, runVars, envVars, Generate, GoTo
<1>5. CASE WriteUsers
  BY <1>5 DEF CalmInv, ServerInv, TypeOK, Calm, serverVars, consumerVars, runVars, envVars, WriteUsers, GoTo
<1>6. CASE StopServices
  BY <1>6 DEF CalmInv, ServerInv, TypeOK, Calm, serverVars, consumerVars, runVars, envVars, StopServices, GoTo
<1>7. CASE StartServices
  BY <1>7 DEF CalmInv, ServerInv, TypeOK, Calm, serverVars, consumerVars, runVars, envVars, StartServices, GoTo
<1>8. CASE WriteCreds
  BY <1>8 DEF CalmInv, ServerInv, TypeOK, Calm, serverVars, consumerVars, runVars, envVars, WriteCreds, GoTo
<1>9. ASSUME NEW c \in Consumers, Fetch(c) PROVE ServerInv'
  BY <1>9 DEF CalmInv, ServerInv, TypeOK, Calm, serverVars, consumerVars, runVars, envVars, Fetch, Resolved, GoTo, Fail
<1>10. ASSUME NEW c \in Consumers, Install(c) PROVE ServerInv'
  BY <1>10 DEF CalmInv, ServerInv, TypeOK, Calm, serverVars, consumerVars, runVars, envVars, Install, GoTo
<1>11. ASSUME NEW c \in Consumers, WriteConf(c) PROVE ServerInv'
  BY <1>11 DEF CalmInv, ServerInv, TypeOK, Calm, serverVars, consumerVars, runVars, envVars, WriteConf, GoTo
<1>12. ASSUME NEW c \in Consumers, RestartService(c) PROVE ServerInv'
  BY <1>12 DEF CalmInv, ServerInv, TypeOK, Calm, serverVars, consumerVars, runVars, envVars, RestartService, GoTo
<1>13. ASSUME NEW c \in Consumers, Test(c) PROVE ServerInv'
  BY <1>13 DEF CalmInv, ServerInv, TypeOK, Calm, serverVars, consumerVars, runVars, envVars, Test, GoTo, Fail
<1>14. ASSUME NEW h \in Hosts, Cut(h) PROVE ServerInv'
  BY <1>14 DEF CalmInv, ServerInv, TypeOK, Calm, serverVars, consumerVars, runVars, envVars, Cut, Fail, Trouble, Kinds
<1>15. CASE ServerStops
  BY <1>15 DEF CalmInv, ServerInv, TypeOK, Calm, serverVars, consumerVars, runVars, envVars, ServerStops, Trouble, Kinds
<1>16. CASE ServerRestarts
  BY <1>16 DEF CalmInv, ServerInv, TypeOK, Calm, serverVars, consumerVars, runVars, envVars, ServerRestarts, Trouble, Kinds
<1>17. ASSUME NEW c \in Consumers, ConsumerRestarts(c) PROVE ServerInv'
  BY <1>17 DEF CalmInv, ServerInv, TypeOK, Calm, serverVars, consumerVars, runVars, envVars, ConsumerRestarts, Trouble, Kinds
<1>18. CASE UNCHANGED vars
  BY <1>18 DEF CalmInv, ServerInv, TypeOK, Calm, serverVars, consumerVars, runVars, envVars, vars
<1> QED BY <1>1, <1>2, <1>3, <1>4, <1>5, <1>6, <1>7, <1>8, <1>9, <1>10, <1>11, <1>12, <1>13, <1>14, <1>15, <1>16, <1>17, <1>18 DEF Next, HostStep, ServerStep, ConsumerStep, Outside

\* ... and every consumer on the one password.
LEMMA ConsumerStepInv ==
  ASSUME Calm', CalmInv, [Next]_vars, NEW d \in Consumers
  PROVE  ConsumerInv(d)'
<1> USE HostKinds
<1>0. ConsumerInv(d)
  BY DEF CalmInv
<1>1. CASE StartRun
  BY <1>0, <1>1 DEF CalmInv, ServerInv, ConsumerInv, TypeOK, serverVars, consumerVars, runVars, envVars, StartRun
<1>2. CASE EndRun
  BY <1>0, <1>2 DEF CalmInv, ConsumerInv, RunInv, TypeOK, EndRun, serverVars, consumerVars, runVars, envVars
<1>3. ASSUME NEW h \in Hosts, Begin(h) PROVE ConsumerInv(d)'
  BY <1>0, <1>3 DEF CalmInv, ConsumerInv, TypeOK, Begin, Detected, ConsumerDetected, ClientDetected, serverVars, consumerVars, runVars, envVars
<1>4. CASE Generate
  BY <1>0, <1>4 DEF CalmInv, ServerInv, ConsumerInv, TypeOK, serverVars, consumerVars, runVars, envVars, Generate, GoTo
<1>5. CASE WriteUsers
  BY <1>0, <1>5 DEF CalmInv, ServerInv, ConsumerInv, TypeOK, serverVars, consumerVars, runVars, envVars, WriteUsers, GoTo
<1>6. CASE StopServices
  BY <1>0, <1>6 DEF CalmInv, ServerInv, ConsumerInv, TypeOK, serverVars, consumerVars, runVars, envVars, StopServices, GoTo
<1>7. CASE StartServices
  BY <1>0, <1>7 DEF CalmInv, ServerInv, ConsumerInv, TypeOK, serverVars, consumerVars, runVars, envVars, StartServices, GoTo
<1>8. CASE WriteCreds
  BY <1>0, <1>8 DEF CalmInv, ServerInv, ConsumerInv, TypeOK, serverVars, consumerVars, runVars, envVars, WriteCreds, GoTo
<1>9. ASSUME NEW c \in Consumers, Fetch(c) PROVE ConsumerInv(d)'
  BY <1>0, <1>9 DEF CalmInv, ServerInv, ConsumerInv, TypeOK, serverVars, consumerVars, runVars, envVars, Fetch, Resolved, GoTo, Fail
<1>10. ASSUME NEW c \in Consumers, Install(c) PROVE ConsumerInv(d)'
  BY <1>0, <1>10 DEF CalmInv, ServerInv, ConsumerInv, TypeOK, serverVars, consumerVars, runVars, envVars, Install, GoTo
<1>11. ASSUME NEW c \in Consumers, WriteConf(c) PROVE ConsumerInv(d)'
  BY <1>0, <1>11 DEF CalmInv, ServerInv, ConsumerInv, TypeOK, serverVars, consumerVars, runVars, envVars, WriteConf, GoTo
<1>12. ASSUME NEW c \in Consumers, RestartService(c) PROVE ConsumerInv(d)'
  BY <1>0, <1>12 DEF CalmInv, ServerInv, ConsumerInv, TypeOK, serverVars, consumerVars, runVars, envVars, RestartService, GoTo
<1>13. ASSUME NEW c \in Consumers, Test(c) PROVE ConsumerInv(d)'
  BY <1>0, <1>13 DEF CalmInv, ServerInv, ConsumerInv, TypeOK, serverVars, consumerVars, runVars, envVars, Test, GoTo, Fail
<1>14. ASSUME NEW h \in Hosts, Cut(h) PROVE ConsumerInv(d)'
  BY <1>0, <1>14 DEF CalmInv, ServerInv, ConsumerInv, TypeOK, serverVars, consumerVars, runVars, envVars, Cut, Fail, Trouble, Kinds
<1>15. CASE ServerStops
  BY <1>0, <1>15 DEF CalmInv, ServerInv, ConsumerInv, TypeOK, serverVars, consumerVars, runVars, envVars, ServerStops, Trouble, Kinds
<1>16. CASE ServerRestarts
  BY <1>0, <1>16 DEF CalmInv, ServerInv, ConsumerInv, TypeOK, serverVars, consumerVars, runVars, envVars, ServerRestarts, Trouble, Kinds
<1>17. ASSUME NEW c \in Consumers, ConsumerRestarts(c) PROVE ConsumerInv(d)'
  BY <1>0, <1>17 DEF CalmInv, ServerInv, ConsumerInv, TypeOK, serverVars, consumerVars, runVars, envVars, ConsumerRestarts, Trouble, Kinds
<1>18. CASE UNCHANGED vars
  BY <1>0, <1>18 DEF CalmInv, ServerInv, ConsumerInv, TypeOK, serverVars, consumerVars, runVars, envVars, vars
<1> QED BY <1>1, <1>2, <1>3, <1>4, <1>5, <1>6, <1>7, <1>8, <1>9, <1>10, <1>11, <1>12, <1>13, <1>14, <1>15, <1>16, <1>17, <1>18 DEF Next, HostStep, ServerStep, ConsumerStep, Outside

\* ... and a run that is over without an error, over.
LEMMA RunStepInv ==
  ASSUME Calm', CalmInv, [Next]_vars
  PROVE  RunInv'
<1> USE HostKinds
<1>1. CASE StartRun
  BY <1>1 DEF CalmInv, RunInv, TypeOK, serverVars, consumerVars, runVars, envVars, StartRun
<1>2. CASE EndRun
  BY <1>2 DEF CalmInv, RunInv, TypeOK, serverVars, consumerVars, runVars, envVars, EndRun
<1>3. ASSUME NEW h \in Hosts, Begin(h) PROVE RunInv'
  BY <1>3 DEF CalmInv, RunInv, TypeOK, serverVars, consumerVars, runVars, envVars, Begin
<1>4. CASE Generate
  BY <1>4 DEF CalmInv, RunInv, TypeOK, serverVars, consumerVars, runVars, envVars, Generate, GoTo
<1>5. CASE WriteUsers
  BY <1>5 DEF CalmInv, RunInv, TypeOK, serverVars, consumerVars, runVars, envVars, WriteUsers, GoTo
<1>6. CASE StopServices
  BY <1>6 DEF CalmInv, RunInv, TypeOK, serverVars, consumerVars, runVars, envVars, StopServices, GoTo
<1>7. CASE StartServices
  BY <1>7 DEF CalmInv, RunInv, TypeOK, serverVars, consumerVars, runVars, envVars, StartServices, GoTo
<1>8. CASE WriteCreds
  BY <1>8 DEF CalmInv, RunInv, TypeOK, serverVars, consumerVars, runVars, envVars, WriteCreds, GoTo
<1>9. ASSUME NEW c \in Consumers, Fetch(c) PROVE RunInv'
  BY <1>9 DEF CalmInv, RunInv, TypeOK, serverVars, consumerVars, runVars, envVars, Fetch, Resolved, GoTo, Fail
<1>10. ASSUME NEW c \in Consumers, Install(c) PROVE RunInv'
  BY <1>10 DEF CalmInv, RunInv, TypeOK, serverVars, consumerVars, runVars, envVars, Install, GoTo
<1>11. ASSUME NEW c \in Consumers, WriteConf(c) PROVE RunInv'
  BY <1>11 DEF CalmInv, RunInv, TypeOK, serverVars, consumerVars, runVars, envVars, WriteConf, GoTo
<1>12. ASSUME NEW c \in Consumers, RestartService(c) PROVE RunInv'
  BY <1>12 DEF CalmInv, RunInv, TypeOK, serverVars, consumerVars, runVars, envVars, RestartService, GoTo
<1>13. ASSUME NEW c \in Consumers, Test(c) PROVE RunInv'
  BY <1>13 DEF CalmInv, RunInv, TypeOK, serverVars, consumerVars, runVars, envVars, Test, GoTo, Fail
<1>14. ASSUME NEW h \in Hosts, Cut(h) PROVE RunInv'
  BY <1>14 DEF CalmInv, RunInv, TypeOK, serverVars, consumerVars, runVars, envVars, Cut, Fail, Trouble, Kinds
<1>15. CASE ServerStops
  BY <1>15 DEF CalmInv, RunInv, TypeOK, serverVars, consumerVars, runVars, envVars, ServerStops, Trouble, Kinds
<1>16. CASE ServerRestarts
  BY <1>16 DEF CalmInv, RunInv, TypeOK, serverVars, consumerVars, runVars, envVars, ServerRestarts, Trouble, Kinds
<1>17. ASSUME NEW c \in Consumers, ConsumerRestarts(c) PROVE RunInv'
  BY <1>17 DEF CalmInv, RunInv, TypeOK, serverVars, consumerVars, runVars, envVars, ConsumerRestarts, Trouble, Kinds
<1>18. CASE UNCHANGED vars
  BY <1>18 DEF CalmInv, RunInv, TypeOK, serverVars, consumerVars, runVars, envVars, vars
<1> QED BY <1>1, <1>2, <1>3, <1>4, <1>5, <1>6, <1>7, <1>8, <1>9, <1>10, <1>11, <1>12, <1>13, <1>14, <1>15, <1>16, <1>17, <1>18 DEF Next, HostStep, ServerStep, ConsumerStep, Outside

\* A run of apply that reports no error leaves every consumer logged in, for any
\* fleet, as long as no server script was cut, no server service has stopped and no
\* wrong password was exported
\* (nutServer.Apply, nutClient.Apply, resolveMonitorPassword).
THEOREM CleanRunsLogIn == Spec => []CleanRunLogsIn
<1>1. Init => TypeOK /\ (Calm => CalmInv)
  <2> SUFFICES ASSUME Init PROVE TypeOK /\ CalmInv
    OBVIOUS
  <2>1. TypeOK
    <3>1. /\ serving \in BOOLEAN
          /\ installed \in [Hosts -> BOOLEAN]
          /\ active \in [Consumers -> BOOLEAN]
      BY Zenon DEF Init
    <3> QED BY <3>1, BoundAssumption, HostKinds DEF Init, TypeOK, Passwords, Foreign
  <2> QED BY <2>1, HostKinds DEF Init, CalmInv, ServerInv, ConsumerInv, RunInv
<1>2. TypeOK /\ (Calm => CalmInv) /\ [Next]_vars => TypeOK' /\ (Calm' => CalmInv')
  BY TypeStep, CalmBefore, ServerStepInv, ConsumerStepInv, RunStepInv DEF CalmInv
<1>3. (Calm => CalmInv) => CleanRunLogsIn
  BY HostKinds DEF CalmInv, ServerInv, ConsumerInv, RunInv, CleanRunLogsIn, EveryRunLogsIn, LoggedIn
<1> QED BY <1>1, <1>2, <1>3, PTL DEF Spec
=============================================================================
