----------------------------- MODULE FleetSetup -----------------------------
(***************************************************************************)
(* What repeated runs of `homelab-nut apply' do to one NUT server and the  *)
(* hosts that log into it with its generated password: nut-client hosts    *)
(* and standalone exporters (internal/roles and its embedded scripts).     *)
(*                                                                         *)
(* Passwords are numbered in the order setup-server.sh generates them; 0   *)
(* is none.  The hosts of a run are worked on in any order and at the same *)
(* time, which is what module Orchestrator allows when the number of hosts *)
(* at work is not limited.  A script is piped into bash over SSH, and may  *)
(* be cut between any two of its steps, by the connection or by set -e.    *)
(* A run may be given a password of the user's (NUT_MONITOR_PASSWORD).     *)
(***************************************************************************)
EXTENDS Integers, FiniteSets

CONSTANTS
  Server,        \* the host with the nut-server role (findNUTServer)
  Clients,       \* hosts with the nut-client role
  Exporters,     \* hosts with the exporter role and without nut-server
  Readers,       \* clients whose SSH account can read /etc/nut/upsmon.conf
  MaxTroubles,   \* bound: how often each kind of trouble happens
  MaxPasswords   \* bound on the passwords generated

Consumers == Clients \cup Exporters
Hosts == {Server} \cup Consumers

ASSUME RolesAssumption == Server \notin Consumers /\ Clients \cap Exporters = {}
\* A script is cut, the server's service stops, a service or host is restarted, or
\* the user exports a password.
Kinds == {"cutServer", "cutConsumer", "stop", "restart", "export"}

\* A password that setup-server.sh has not made up.
Foreign == -1
Passwords == {Foreign} \cup 0..MaxPasswords

ASSUME BoundAssumption == MaxTroubles \in [Kinds -> Nat] /\ MaxPasswords \in Nat

VARIABLES
  generated,  \* number of passwords generated so far
  users,      \* the password in upsd.users
  loaded,     \* the one upsd has read
  serving,    \* nut-server is active
  creds,      \* the one in /root/nut-credentials.txt
  installed,  \* installed[h]: the packages of the role are there
  conf,       \* conf[c]: the password in upsmon.conf or /etc/default/nut-exporter
  held,       \* held[c]: the one the service of c has read
  active,     \* active[c]: the service of c is active
  script,     \* script[h]: the next step of the script run on h, or "none"
  pass,       \* pass[h]: the password the script was given or made up
  run,        \* "idle", "applying", or the result of the last run
  waiting,    \* hosts the run has not begun
  failed,     \* hosts of the run with an error
  override,   \* NUT_MONITOR_PASSWORD in the environment of the run
  told,       \* history: the passwords users have exported so far
  trouble     \* trouble[k]: how often k has happened so far

serverVars == <<users, loaded, serving, creds>>
consumerVars == <<conf, held, active>>
envVars == <<override, told>>
runVars == <<run, waiting, failed>>
vars == <<generated, serverVars, installed, consumerVars, script, pass, runVars, envVars,
          trouble>>

Init ==
  /\ generated = 0 /\ users = 0 /\ loaded = 0 /\ creds = 0
  /\ serving = FALSE
  /\ installed = [h \in Hosts |-> FALSE]
  /\ conf = [c \in Consumers |-> 0]
  /\ held = [c \in Consumers |-> 0]
  /\ active = [c \in Consumers |-> FALSE]
  /\ script = [h \in Hosts |-> "none"]
  /\ pass = [h \in Hosts |-> 0]
  /\ run = "idle" /\ waiting = {} /\ failed = {}
  /\ override = 0 /\ told = {}
  /\ trouble = [k \in Kinds |-> 0]

-----------------------------------------------------------------------------
\* Detect of the three roles.

ServerDetected == installed[Server] /\ serving

ClientDetected(c) == installed[c] /\ active[c] /\ c \in Readers /\ conf[c] # 0

ConsumerDetected(c) ==
  IF c \in Clients THEN ClientDetected(c) ELSE installed[c] /\ active[c]

Detected(h) == IF h = Server THEN ServerDetected ELSE ConsumerDetected(h)

\* The script of h goes on, ends, or ends the host's part of the run in error.
GoTo(h, step) == script' = [script EXCEPT ![h] = step] /\ UNCHANGED failed
Fail(h) == script' = [script EXCEPT ![h] = "none"] /\ failed' = failed \cup {h}

-----------------------------------------------------------------------------
\* One run of apply.

Trouble(kind) ==
  /\ trouble[kind] < MaxTroubles[kind]
  /\ trouble' = [trouble EXCEPT ![kind] = @ + 1]

\* The user knows the passwords made up so far, and may mistake another for them.
Exported(p) ==
  /\ Trouble("export")
  /\ override' = p
  /\ told' = told \cup {p}

StartRun ==
  /\ run # "applying"
  /\ run' = "applying"
  /\ waiting' = Hosts
  /\ failed' = {}
  /\ \/ override' = 0 /\ UNCHANGED <<told, trouble>>
     \/ \E p \in {Foreign} \cup 1..generated : Exported(p)
  /\ UNCHANGED <<generated, serverVars, installed, consumerVars, script, pass>>

\* A host's role is detected; Apply is called if that is not OK.
Begin(h) ==
  /\ h \in waiting
  /\ waiting' = waiting \ {h}
  /\ script' = [script EXCEPT ![h] =
       IF Detected(h) THEN "none" ELSE IF h = Server THEN "generate" ELSE "fetch"]
  /\ UNCHANGED <<generated, serverVars, installed, consumerVars, pass, run, failed,
                 trouble, envVars>>

\* The program ends, and its environment with it.
EndRun ==
  /\ run = "applying" /\ waiting = {}
  /\ \A h \in Hosts : script[h] = "none"
  /\ run' = (IF failed = {} THEN "ok" ELSE "partial")
  /\ override' = 0
  /\ UNCHANGED <<generated, serverVars, installed, consumerVars, script, pass, waiting,
                 failed, told, trouble>>

-----------------------------------------------------------------------------
\* setup-server.sh

\* Mutant: a password is made up on the way and thrown away.
GenerateTwice ==
  /\ script[Server] = "generate" /\ generated < MaxPasswords
  /\ generated' = generated + 2
  /\ pass' = [pass EXCEPT ![Server] = generated + 1]
  /\ installed' = [installed EXCEPT ![Server] = TRUE]
  /\ GoTo(Server, "users")
  /\ UNCHANGED <<serverVars, consumerVars, run, waiting, trouble, envVars>>

\* openssl rand; apt-get install.
Generate ==
  /\ script[Server] = "generate" /\ generated < MaxPasswords
  /\ generated' = generated + 1
  /\ pass' = [pass EXCEPT ![Server] = generated']
  /\ installed' = [installed EXCEPT ![Server] = TRUE]
  /\ GoTo(Server, "users")
  /\ UNCHANGED <<serverVars, consumerVars, run, waiting, trouble, envVars>>

WriteUsers ==
  /\ script[Server] = "users"
  /\ users' = pass[Server]
  /\ GoTo(Server, "stop")
  /\ UNCHANGED <<generated, loaded, serving, creds, installed, consumerVars, pass, run,
                 waiting, trouble, envVars>>

StopServices ==
  /\ script[Server] = "stop"
  /\ serving' = FALSE
  /\ GoTo(Server, "start")
  /\ UNCHANGED <<generated, users, loaded, creds, installed, consumerVars, pass, run,
                 waiting, trouble, envVars>>

StartServices ==
  /\ script[Server] = "start"
  /\ serving' = TRUE
  /\ loaded' = users
  /\ GoTo(Server, "creds")
  /\ UNCHANGED <<generated, users, creds, installed, consumerVars, pass, run, waiting,
                 trouble, envVars>>

\* Mutant: the file is written in one branch of the test before it only.
LeaveCreds ==
  /\ script[Server] = "creds"
  /\ GoTo(Server, "none")
  /\ UNCHANGED <<generated, users, loaded, serving, creds, installed, consumerVars, pass, run,
                 waiting, trouble, envVars>>

WriteCreds ==
  /\ script[Server] = "creds"
  /\ creds' = pass[Server]
  /\ GoTo(Server, "none")
  /\ UNCHANGED <<generated, users, loaded, serving, installed, consumerVars, pass, run,
                 waiting, trouble, envVars>>

ServerStep == Generate \/ WriteUsers \/ StopServices \/ StartServices \/ WriteCreds

-----------------------------------------------------------------------------
\* nut-client and standalone exporter: Apply, setup-client.sh, setup-exporter.sh

\* Mutant: no file, no password.
FetchAnyway(c) ==
  /\ script[c] = "fetch"
  /\ pass' = [pass EXCEPT ![c] = creds] /\ GoTo(c, "install")
  /\ UNCHANGED <<generated, serverVars, installed, consumerVars, run, waiting, trouble,
                 envVars>>

\* Mutant: the password is read from upsd.users.
FetchUsers(c) ==
  /\ script[c] = "fetch"
  /\ IF users = 0 THEN Fail(c) /\ UNCHANGED pass
     ELSE pass' = [pass EXCEPT ![c] = users] /\ GoTo(c, "install")
  /\ UNCHANGED <<generated, serverVars, installed, consumerVars, run, waiting, trouble,
                 envVars>>

\* resolveMonitorPassword: the user's password if one is exported, whatever is on
\* the server, and else the one in the credentials file there.
Resolved == IF override # 0 THEN override ELSE creds

Fetch(c) ==
  /\ script[c] = "fetch"
  /\ IF Resolved = 0 THEN Fail(c) /\ UNCHANGED pass
     ELSE pass' = [pass EXCEPT ![c] = Resolved] /\ GoTo(c, "install")
  /\ UNCHANGED <<generated, serverVars, installed, consumerVars, run, waiting, trouble,
                 envVars>>

\* Packages, or the exporter's binary, for which its service is stopped.
Install(c) ==
  /\ script[c] = "install"
  /\ installed' = [installed EXCEPT ![c] = TRUE]
  /\ active' = [active EXCEPT ![c] = @ /\ c \in Clients]
  /\ GoTo(c, "write")
  /\ UNCHANGED <<generated, serverVars, conf, held, pass, run, waiting, trouble, envVars>>

WriteConf(c) ==
  /\ script[c] = "write"
  /\ conf' = [conf EXCEPT ![c] = pass[c]]
  /\ GoTo(c, "restart")
  /\ UNCHANGED <<generated, serverVars, installed, held, active, pass, run, waiting,
                 trouble, envVars>>

RestartService(c) ==
  /\ script[c] = "restart"
  /\ active' = [active EXCEPT ![c] = TRUE]
  /\ held' = [held EXCEPT ![c] = conf[c]]
  /\ GoTo(c, IF c \in Clients THEN "test" ELSE "none")
  /\ UNCHANGED <<generated, serverVars, installed, conf, pass, run, waiting, trouble,
                 envVars>>

\* upsc: asks the server without logging in.
Test(c) ==
  /\ script[c] = "test"
  /\ IF serving THEN GoTo(c, "none") ELSE Fail(c)
  /\ UNCHANGED <<generated, serverVars, installed, consumerVars, pass, run, waiting,
                 trouble, envVars>>

ConsumerStep(c) ==
  Fetch(c) \/ Install(c) \/ WriteConf(c) \/ RestartService(c) \/ Test(c)

-----------------------------------------------------------------------------
\* What happens to the hosts from outside.

\* The script stops where it is; its Apply comes back with an error.
Cut(h) ==
  /\ script[h] # "none"
  /\ Trouble(IF h = Server THEN "cutServer" ELSE "cutConsumer")
  /\ Fail(h)
  /\ UNCHANGED <<generated, serverVars, installed, consumerVars, pass, run, waiting,
                 envVars>>

ServerStops ==
  /\ serving /\ script[Server] = "none"
  /\ Trouble("stop")
  /\ serving' = FALSE
  /\ UNCHANGED <<generated, users, loaded, creds, installed, consumerVars, script, pass,
                 runVars, envVars>>

\* A service is restarted, or its host: it reads its files.
ServerRestarts ==
  /\ users # 0 /\ script[Server] = "none"
  /\ Trouble("restart")
  /\ serving' = TRUE /\ loaded' = users
  /\ UNCHANGED <<generated, users, creds, installed, consumerVars, script, pass, runVars,
                 envVars>>

ConsumerRestarts(c) ==
  /\ active[c] /\ script[c] = "none"
  /\ Trouble("restart")
  /\ held' = [held EXCEPT ![c] = conf[c]]
  /\ UNCHANGED <<generated, serverVars, installed, conf, active, script, pass, runVars,
                 envVars>>

Outside ==
  \/ \E h \in Hosts : Cut(h)
  \/ ServerStops \/ ServerRestarts
  \/ \E c \in Consumers : ConsumerRestarts(c)

-----------------------------------------------------------------------------
HostStep(h) == Begin(h) \/ (h = Server /\ ServerStep) \/ (h \in Consumers /\ ConsumerStep(h))

Next ==
  \/ StartRun \/ EndRun
  \/ \E h \in Hosts : HostStep(h)
  \/ Outside

\* Scripts go on, runs end, and the user repeats a run that has failed.
Fairness ==
  /\ \A h \in Hosts : WF_vars(HostStep(h))
  /\ WF_vars(EndRun)
  /\ WF_vars(run # "ok" /\ StartRun)

Spec == Init /\ [][Next]_vars
FairSpec == Spec /\ Fairness

-----------------------------------------------------------------------------
TypeOK ==
  /\ generated \in 0..MaxPasswords
  /\ users \in 0..MaxPasswords /\ loaded \in 0..MaxPasswords /\ creds \in 0..MaxPasswords
  /\ serving \in BOOLEAN
  /\ installed \in [Hosts -> BOOLEAN]
  /\ conf \in [Consumers -> Passwords]
  /\ held \in [Consumers -> Passwords]
  /\ active \in [Consumers -> BOOLEAN]
  /\ script \in [Hosts -> {"none", "generate", "users", "stop", "start", "creds",
                           "fetch", "install", "write", "restart", "test"}]
  /\ pass \in [Hosts -> Passwords] /\ pass[Server] # Foreign
  /\ run \in {"idle", "applying", "ok", "partial"}
  /\ waiting \subseteq Hosts /\ failed \subseteq Hosts
  /\ override \in Passwords /\ told \subseteq Passwords
  /\ trouble \in [Kinds -> Nat] /\ \A k \in Kinds : trouble[k] <= MaxTroubles[k]

\* Whatever is cut or restarted, a password reaches the credentials file after
\* upsd.users, and a consumer after the credentials file or out of a user's
\* NUT_MONITOR_PASSWORD (setup-server.sh, resolveMonitorPassword).  Without one, a
\* consumer's service is never ahead of its configuration either.
NeverAhead ==
  /\ creds <= users /\ loaded <= users /\ users <= generated
  /\ \A c \in Consumers :
       /\ {conf[c], held[c]} \subseteq 0..creds \cup told
       /\ told = {} => held[c] <= conf[c]

LoggedIn == \A c \in Consumers : active[c] /\ held[c] = loaded

\* The server's own script has not been cut, its service has not stopped, and no
\* user has exported a wrong password.
Calm == trouble["cutServer"] = 0 /\ trouble["stop"] = 0 /\ Foreign \notin told

\* "Apply should be idempotent" (role.go:89): a run that reports no error leaves
\* every consumer with the password the server asks for.  The code does not keep
\* it when the server has stopped: it is given a new password, they are not; nor
\* when a wrong password is exported, since the test of a client does not log in.
EveryRunLogsIn == run = "ok" => LoggedIn

\* The code keeps it as long as the server is left alone and what is exported is
\* right, whatever is cut on the consumers or restarted (resolveMonitorPassword,
\* setup-client.sh).
CleanRunLogsIn == Calm => EveryRunLogsIn

\* Repeated until it reports no error, apply leaves all hosts protected, as long as
\* the server is left alone and what is exported is right.
Converges == <>[](Calm => serving /\ LoggedIn)

\* "Apply should be idempotent so re-running on a half-applied host converges"
\* (role.go:89).  The code does not keep it: a server cut before its credentials
\* file is written looks in order.
ConvergesAlways == <>[](serving /\ LoggedIn)

\* "StateOK: fully configured and healthy" (role.go): that is what a client is
\* found in when it is.
HealthyIsDetected ==
  \A c \in Clients :
    (installed[c] /\ active[c] /\ held[c] # 0 /\ script[c] = "none") => ClientDetected(c)
=============================================================================
