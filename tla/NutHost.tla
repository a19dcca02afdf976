------------------------------ MODULE NutHost ------------------------------
(***************************************************************************)
(* One host under `homelab-nut apply' and `uninstall', with and without    *)
(* --purge-nut, and the three roles that put NUT on it: nut-server,        *)
(* nut-client and exporter, any of them together (internal/roles:          *)
(* nutserver.go, nutclient.go, exporter.go, uninstall.go and the embedded  *)
(* setup scripts).  Its roles are worked on one after the other, in the    *)
(* order of the orchestrator or in reverse.                                *)
(*                                                                         *)
(* Module FleetSetup has the passwords and the other hosts; here they are  *)
(* there or not, and a host with nut-server is its own client's server.  A *)
(* script may be cut between any two steps, a service may stop, and the    *)
(* host may be booted at any time.  Hosts with apt only: the branches for  *)
(* dnf (setup-server.sh:58, setup-client.sh:62), whose packages an         *)
(* uninstall does not find (uninstall.go:65), are left out.                *)
(***************************************************************************)

Roles == {"nut-server", "nut-client", "exporter"}

\* The order of an apply.
Precedes ==
  {<<"nut-server", "nut-client">>, <<"nut-server", "exporter">>, <<"nut-client", "exporter">>}

Packages == {"nut", "nut-server", "nut-client"}
Services == {"nut-server", "nut-monitor", "nut-exporter"}
ExporterFiles == {"binary", "env", "unit"}

VARIABLES
  roles,    \* the roles of the host
  reads,    \* can the SSH account read /etc/nut?
  packages, \* the packages installed
  files,    \* upsd's files ("conf"), the credentials ("creds"), the exporter's
  mode,     \* MODE in nut.conf, or "none"
  watch,    \* how the MONITOR line of upsmon.conf logs in, or "none"
  running, enabled,   \* services
  run,      \* the command under way, or the outcome of the last
  todo,     \* the roles it has not begun
  at,       \* the role it is at
  script,   \* the next step of the script of that role, or "none"
  failed,   \* has a role failed?
  spoiled,  \* the server's script was cut, or its purge did not end well
  disturbed \* a script was cut or failed, upsmon stopped, or a role was purged alone

choice == <<roles, reads>>
nut == <<packages, files, mode, watch>>
services == <<running, enabled>>
history == <<spoiled, disturbed>>
vars == <<choice, nut, services, run, todo, at, script, failed, history>>

Init ==
  /\ roles \in (SUBSET Roles) \ {{}} /\ reads \in BOOLEAN
  /\ packages = {} /\ files = {} /\ mode = "none" /\ watch = "none"
  /\ running = {} /\ enabled = {}
  /\ run = "idle" /\ todo = {} /\ at = "none" /\ script = "none" /\ failed = FALSE
  /\ spoiled = FALSE /\ disturbed = FALSE

IsServer == "nut-server" \in roles
Both == {"nut-server", "nut-client"} \subseteq roles

-----------------------------------------------------------------------------
\* Detect of the three roles.

Detected(r) ==
  CASE r = "nut-server" -> "nut-server" \in packages /\ "nut-server" \in running
    [] r = "nut-client" -> /\ "nut-client" \in packages /\ "nut-monitor" \in running
                           /\ watch # "none" /\ reads
    [] r = "exporter" -> "binary" \in files /\ "nut-exporter" \in running

-----------------------------------------------------------------------------
\* The walk over the roles.

Active == {"applying", "removing", "purging", "purging one"}

StartApply ==
  /\ run \notin Active /\ run' = "applying"
  /\ todo' = roles /\ failed' = FALSE
  /\ UNCHANGED <<choice, nut, services, at, script, history>>

\* All roles of the host, or the one of --role.
StartUninstall ==
  /\ run \notin Active
  /\ \E purge \in BOOLEAN, chosen \in {roles} \cup {{r} : r \in roles} :
       /\ run' = IF ~purge THEN "removing" ELSE IF chosen = roles THEN "purging" ELSE "purging one"
       /\ todo' = chosen
       /\ disturbed' = (disturbed \/ (purge /\ chosen # roles))
  /\ failed' = FALSE
  /\ UNCHANGED <<choice, nut, services, at, script, spoiled>>

\* A client and a standalone exporter first ask the server for the password.
SetupFirst(r) ==
  CASE r = "nut-server" -> "install"
    [] r = "nut-client" -> "fetch"
    [] r = "exporter" -> IF IsServer THEN "binary" ELSE "fetch"

\* Mutant: the unit is taken for stopped.
RemovalUnstopped(r) ==
  CASE r = "nut-server" -> "rm etc" [] r = "nut-client" -> "purge client" [] r = "exporter" -> "disable"

RemovalFirst(r) ==
  CASE r = "nut-server" -> "rm etc" [] r = "nut-client" -> "purge client" [] r = "exporter" -> "halt"

\* Without a purge the two NUT roles remove nothing.
FirstStep(r) ==
  CASE run = "applying" -> IF Detected(r) THEN "none" ELSE SetupFirst(r)
    [] run = "removing" -> IF r = "exporter" THEN RemovalFirst(r) ELSE "none"
    [] OTHER -> RemovalFirst(r)

\* Is r next?  A removal takes the roles in reverse.
IsNext(r) ==
  /\ r \in todo
  /\ \A s \in todo \ {r} : (IF run = "applying" THEN <<r, s>> ELSE <<s, r>>) \in Precedes

BeginRole ==
  /\ run \in Active /\ script = "none"
  /\ \E r \in Roles : IsNext(r) /\ at' = r /\ todo' = todo \ {r} /\ script' = FirstStep(r)
  /\ UNCHANGED <<choice, nut, services, run, failed, history>>

\* Plan or Detect fails: the next role is tried all the same.
PlanFails ==
  /\ run = "applying" /\ script = "none"
  /\ \E r \in Roles : IsNext(r) /\ at' = r /\ todo' = todo \ {r}
  /\ failed' = TRUE
  /\ UNCHANGED <<choice, nut, services, run, script, history>>

\* A purge of all roles that ends well starts over.
EndRun ==
  /\ run \in Active /\ script = "none" /\ todo = {}
  /\ run' = IF failed THEN "partial"
            ELSE IF run = "applying" THEN "ok" ELSE IF run = "purging" THEN "purged" ELSE "removed"
  /\ spoiled' = (spoiled /\ run' # "purged") /\ disturbed' = (disturbed /\ run' # "purged")
  /\ at' = "none"
  /\ UNCHANGED <<choice, nut, services, todo, script, failed>>

-----------------------------------------------------------------------------
\* The steps of the scripts.

\* A step of the script, and the one after it.
From(step, next) ==
  /\ script = step /\ script' = next
  /\ UNCHANGED <<choice, run, todo, at, failed, history>>

\* The credentials of a server elsewhere are there or not; not is a Cut.
Fetch ==
  /\ From("fetch", IF at = "nut-client" THEN "install" ELSE "binary")
  /\ IsServer => "creds" \in files
  /\ UNCHANGED <<nut, services>>

\* A package may enable its services.
Install ==
  /\ From("install", "mode")
  /\ packages' = packages \cup (IF at = "nut-server" THEN Packages ELSE {"nut-client"})
  /\ \/ UNCHANGED enabled
     \/ enabled' = enabled \cup {"nut-monitor"} \cup (IF at = "nut-server" THEN {"nut-server"} ELSE {})
  /\ UNCHANGED <<files, mode, watch, running>>

SetMode ==
  /\ From("mode", "conf")
  /\ mode' = IF at = "nut-server" THEN "netserver" ELSE "netclient"
  /\ UNCHANGED <<packages, files, watch, services>>

WriteConf ==
  /\ \/ /\ at = "nut-server" /\ From("conf", "stop")
        /\ watch' = "primary" /\ files' = files \cup {"conf"}
     \/ /\ at = "nut-client" /\ From("conf", "monitor")
        /\ watch' = "secondary" /\ UNCHANGED files
  /\ UNCHANGED <<packages, mode, services>>

StopServices ==
  /\ From("stop", "serve") /\ running' = running \ {"nut-server", "nut-monitor"}
  /\ UNCHANGED <<nut, enabled>>

StartServer ==
  /\ From("serve", "monitor") /\ running' = running \cup {"nut-server"}
  /\ enabled' = enabled \cup {"nut-server", "nut-monitor"}
  /\ UNCHANGED nut

RestartMonitor ==
  /\ From("monitor", IF at = "nut-server" THEN "creds" ELSE "test")
  /\ running' = running \cup {"nut-monitor"}
  /\ enabled' = enabled \cup {"nut-monitor"}
  /\ UNCHANGED nut

WriteCreds ==
  /\ From("creds", "none") /\ files' = files \cup {"creds"}
  /\ UNCHANGED <<packages, mode, watch, services>>

Test ==
  /\ From("test", "none") /\ (IsServer => "nut-server" \in running)
  /\ UNCHANGED <<nut, services>>

\* The exporter is stopped before its binary is replaced.
InstallExporter ==
  /\ \/ From("binary", "env") /\ files' = files \cup {"binary"} /\ running' = running \ {"nut-exporter"}
     \/ From("env", "unit") /\ files' = files \cup {"env"} /\ UNCHANGED running
     \/ From("unit", "start") /\ files' = files \cup {"unit"} /\ UNCHANGED running
  /\ UNCHANGED <<packages, mode, watch, enabled>>

StartExporter ==
  /\ From("start", "none") /\ running' = running \cup {"nut-exporter"}
  /\ enabled' = enabled \cup {"nut-exporter"}
  /\ UNCHANGED nut

RemoveUnit ==
  /\ \/ From("halt", "disable") /\ running' = running \ {"nut-exporter"} /\ UNCHANGED <<files, enabled>>
     \/ From("disable", "rm unit") /\ enabled' = enabled \ {"nut-exporter"} /\ UNCHANGED <<files, running>>
     \/ From("rm unit", "rm binary") /\ files' = files \ {"unit"} /\ UNCHANGED services
  /\ UNCHANGED <<packages, mode, watch>>

RemoveFile ==
  /\ \/ From("rm binary", "rm env") /\ files' = files \ {"binary"} /\ UNCHANGED <<mode, watch>>
     \/ From("rm env", "none") /\ files' = files \ {"env"} /\ UNCHANGED <<mode, watch>>
     \/ From("rm etc", "rm creds") /\ files' = files \ {"conf"} /\ mode' = "none" /\ watch' = "none"
     \/ From("rm creds", "purge server") /\ files' = files \ {"creds"} /\ UNCHANGED <<mode, watch>>
  /\ UNCHANGED <<packages, services>>

\* The packages that may be purged with p, which depend on it.
Dependents(p) == CASE p = "nut-client" -> {"nut", "nut-server"} [] p = "nut-server" -> {"nut"} [] OTHER -> {}

Purged(p) ==
  \E more \in SUBSET Dependents(p) :
    LET gone == IF p \in packages THEN {p} \cup more ELSE {}
        dead == (IF "nut-server" \in gone THEN {"nut-server"} ELSE {})
                  \cup (IF "nut-client" \in gone THEN {"nut-monitor"} ELSE {})
    IN  /\ packages' = packages \ gone
        /\ running' = running \ dead /\ enabled' = enabled \ dead
        /\ files' = IF "nut-server" \in gone THEN files \ {"conf"} ELSE files
        /\ IF "nut-client" \in gone THEN mode' = "none" /\ watch' = "none"
                                    ELSE UNCHANGED <<mode, watch>>

Purge(step, p, next) == From(step, next) /\ Purged(p)

\* Mutant: the script's "error:" line is not looked for.
PurgeFailsUnseen(step, p, next) == From(step, next) /\ p \in packages /\ UNCHANGED <<nut, services>>

\* apt fails: the script goes on, and says so at its end.
PurgeFails(step, p, next) ==
  /\ script = step /\ script' = next /\ p \in packages
  /\ failed' = TRUE /\ disturbed' = TRUE /\ spoiled' = (spoiled \/ at = "nut-server")
  /\ UNCHANGED <<choice, nut, services, run, todo, at>>

PurgeStep(step, p, next) == Purge(step, p, next) \/ PurgeFails(step, p, next)

ScriptStep ==
  \/ Fetch \/ Install \/ SetMode \/ WriteConf \/ StopServices \/ StartServer \/ RestartMonitor
  \/ WriteCreds \/ Test \/ InstallExporter \/ StartExporter \/ RemoveUnit \/ RemoveFile
  \/ PurgeStep("purge client", "nut-client", "none")
  \/ PurgeStep("purge server", "nut-server", "purge nut")
  \/ PurgeStep("purge nut", "nut", "none")

-----------------------------------------------------------------------------
\* What happens besides.

\* The script ends where it is; an apply leaves the later roles alone.
Cut ==
  /\ script # "none" /\ script' = "none" /\ failed' = TRUE
  /\ todo' = IF run = "applying" THEN {} ELSE todo
  /\ disturbed' = TRUE /\ spoiled' = (spoiled \/ at = "nut-server")
  /\ UNCHANGED <<choice, nut, services, run, at>>

ServiceStops ==
  /\ script = "none"
  /\ \E s \in running :
       /\ running' = running \ {s}
       /\ disturbed' = (disturbed \/ s = "nut-monitor")
  /\ UNCHANGED <<choice, nut, enabled, run, todo, at, script, failed, spoiled>>

\* Can s run with what there is?
Fit(s) ==
  CASE s = "nut-server" -> "nut-server" \in packages /\ "conf" \in files /\ mode = "netserver"
    [] s = "nut-monitor" -> "nut-client" \in packages /\ watch # "none"
    [] s = "nut-exporter" -> ExporterFiles \subseteq files

Boot ==
  /\ script = "none"
  /\ running' = {s \in enabled : Fit(s)}
  /\ UNCHANGED <<choice, nut, enabled, run, todo, at, script, failed, history>>

Next ==
  \/ StartApply \/ StartUninstall \/ BeginRole \/ PlanFails \/ EndRun
  \/ ScriptStep \/ Cut \/ ServiceStops \/ Boot

Spec == Init /\ [][Next]_vars

-----------------------------------------------------------------------------
\* Properties.

\* Types; and the exporter never runs on without its files, wherever its script
\* or its removal is cut (buildRemovalScript, setup-exporter.sh).
TypeOK ==
  /\ roles \subseteq Roles /\ packages \subseteq Packages
  /\ files \subseteq ExporterFiles \cup {"conf", "creds"}
  /\ mode \in {"none", "netserver", "netclient"} /\ watch \in {"none", "primary", "secondary"}
  /\ running \subseteq Services /\ enabled \subseteq Services
  /\ run \in Active \cup {"idle", "ok", "partial", "removed", "purged"}
  /\ at \in Roles \cup {"none"} /\ todo \subseteq roles
  /\ script # "none" => run \in Active /\ at \in roles
  /\ "nut-exporter" \in running => Fit("nut-exporter")

\* What a boot of the host brings up.
ComesBack(s) == s \in enabled /\ Fit(s)

InPlace(r) ==
  CASE r = "nut-server" -> ComesBack("nut-server") /\ watch = "primary" /\ "creds" \in files
    [] r = "nut-client" -> ComesBack("nut-monitor")
    [] r = "exporter" -> ComesBack("nut-exporter")

\* An apply that ends well leaves a host that comes back with all its roles after
\* a boot, and a purge of all its roles that ends well leaves none of their files
\* and packages, whatever was applied, removed, cut or stopped before.  An apply
\* does so unless the server's own script or purge was cut; a host that is server
\* and client must besides have been left alone and be read by its account, and a
\* purge leaves nut-client on a server that is no client.
EndsAsPromised ==
  /\ (run = "ok" /\ ~spoiled /\ (Both => reads /\ ~disturbed)) => \A r \in roles : InPlace(r)
  /\ run = "purged" =>
       /\ files = {} /\ mode = "none" /\ watch = "none"
       /\ packages \subseteq {"nut-client"}
       /\ (IsServer /\ "nut-client" \notin roles) \/ (packages = {} /\ running = {})

\* "Apply should be idempotent so re-running on a half-applied host converges"
\* (role.go:89), for hosts with both roles.  The code does not keep it: a client's
\* script writes MODE=netclient over the server's configuration
\* (setup-client.sh:85), and Detect goes on calling the server OK.
BothComeBack == run = "ok" /\ ~spoiled => \A r \in roles : InPlace(r)

\* "PurgeNUT also apt-purges the upstream NUT packages" (uninstall.go:17).  The
\* code does not keep it: nut-client, which setup-server.sh installs as well
\* (line 56), stays with its upsmon (nutserver.go:138).
PurgeTakesAll == run = "purged" => packages = {} /\ running = {}
=============================================================================
