---------------------------- MODULE NutHostProofs ----------------------------
(***************************************************************************)
(* Theorems about NutHost, for any roles of the host and any history of    *)
(* applies, removals, purges, cuts, stops and boots: a service that runs   *)
(* has what it needs, and a run that ends well leaves what it promises.    *)
(* The invariant says what a host has at each step of a script, and what a *)
(* server that runs must have when its own script has never been cut.      *)
(***************************************************************************)
EXTENDS NutHost, TLAPS

\* The script of r is under way; r is over, and nothing has failed.
Here(r) == at = r /\ script # "none"
Passed(r) == r \in roles \ todo /\ ~Here(r) /\ ~failed
HasClient == "nut-client" \in roles

\* Which step belongs to which script, and the books of a run.
RunInv ==
  /\ script # "none" => at \notin todo
  /\ script \in {"fetch", "install", "mode", "conf", "stop", "serve", "monitor", "creds",
                 "test", "binary", "env", "unit", "start"} => run = "applying"
  /\ script \in {"halt", "disable", "rm unit", "rm binary", "rm env"} => run \in Active \ {"applying"}
  /\ script \in {"purge client", "rm etc", "rm creds", "purge server", "purge nut"} =>
       run \in {"purging", "purging one"}
  /\ script = "fetch" => at \in {"nut-client", "exporter"}
  /\ script \in {"install", "mode", "conf", "monitor"} => at \in {"nut-server", "nut-client"}
  /\ script \in {"stop", "serve", "creds", "rm etc", "rm creds", "purge server", "purge nut"} =>
       at = "nut-server"
  /\ script \in {"test", "purge client"} => at = "nut-client"
  /\ script \in {"binary", "env", "unit", "start",
                 "halt", "disable", "rm unit", "rm binary", "rm env"} => at = "exporter"
  /\ run \in {"ok", "purged"} => todo = {} /\ ~failed
  /\ spoiled \/ (run = "purging" /\ failed) \/ run = "purging one" => disturbed

\* What runs is installed, and will run again.
ServiceInv ==
  /\ "nut-server" \in running => "nut-server" \in packages
  /\ "nut-monitor" \in running => "nut-client" \in packages /\ "nut-monitor" \in enabled
  /\ "nut-exporter" \in running => ExporterFiles \subseteq files /\ "nut-exporter" \in enabled
  /\ "conf" \in files => "nut-server" \in packages
  /\ mode # "none" \/ watch # "none" => "nut-client" \in packages

\* What a host does not have without the role.
AbsentInv ==
  /\ "exporter" \notin roles => ExporterFiles \cap files = {}
  /\ ~IsServer => packages \subseteq {"nut-client"} /\ files \subseteq ExporterFiles
  /\ ~IsServer /\ ~HasClient => packages = {}

\* What the steps of a set-up have reached.
SetupInv ==
  /\ at = "nut-server" =>
       /\ script \in {"mode", "conf", "stop", "serve", "monitor", "creds"} => Packages \subseteq packages
       /\ script \in {"conf", "stop", "serve", "monitor", "creds"} => mode = "netserver"
       /\ script \in {"stop", "serve", "monitor", "creds"} => "conf" \in files /\ watch = "primary"
       /\ script \in {"monitor", "creds"} => {"nut-server", "nut-monitor"} \subseteq enabled
       /\ script = "creds" => "nut-monitor" \in running
  /\ at = "nut-client" =>
       /\ script \in {"mode", "conf", "monitor", "test"} => "nut-client" \in packages
       /\ script \in {"monitor", "test"} => watch # "none"
       /\ script = "test" => "nut-monitor" \in enabled
  /\ script \in {"env", "unit", "start"} => "binary" \in files
  /\ script \in {"unit", "start"} => "env" \in files
  /\ script = "start" => "unit" \in files

\* What the steps of a removal have reached; an exporter is stopped before its
\* files are replaced, too.
RemovalInv ==
  /\ script \in {"env", "unit", "start", "disable", "rm unit", "rm binary", "rm env"} => "nut-exporter" \notin running
  /\ script \in {"rm binary", "rm env"} => "unit" \notin files
  /\ script = "rm env" => "binary" \notin files
  /\ script \in {"rm creds", "purge server", "purge nut"} =>
       "conf" \notin files /\ mode = "none" /\ watch = "none"
  /\ script \in {"purge server", "purge nut"} => "creds" \notin files
  /\ script = "purge nut" /\ (~failed \/ ~spoiled) => "nut-server" \notin packages

\* A server whose script was never cut is whole or not there at all.
ServerInv ==
  IsServer /\ ~HasClient /\ ~spoiled /\ ~Here("nut-server")
    /\ ("nut-server" \in running \/ "conf" \in files) => InPlace("nut-server")

\* A host with both roles that nothing has disturbed: its server is whole, its
\* monitor runs, and an apply finds the client in order.
Pair == Both /\ reads /\ ~disturbed
PairInv ==
  /\ (Pair /\ run # "purging" /\ ~Here("nut-server")
        /\ ("nut-server" \in running \/ "conf" \in files \/ "creds" \in files)) =>
       /\ InPlace("nut-server")
       /\ "nut-client" \in packages /\ "nut-monitor" \in enabled \cap running
  /\ Pair /\ run = "applying" /\ Here("nut-client") => script = "fetch" /\ "creds" \notin files

\* What an apply has brought each role it has passed to.
AppliedInv ==
  run \in {"applying", "ok"} =>
    /\ Passed("exporter") => InPlace("exporter")
    /\ Passed("nut-client") /\ ~IsServer => InPlace("nut-client")
    /\ Passed("nut-server") /\ ~HasClient /\ ~spoiled => InPlace("nut-server")
    /\ Passed("nut-server") /\ Pair => "creds" \in files

\* What a purge has left of each role it has passed.
PurgedInv ==
  run \in {"purging", "purged"} =>
    /\ Passed("exporter") => ExporterFiles \cap files = {}
    /\ Passed("nut-client") => "nut-client" \notin packages
    /\ Passed("nut-server") => /\ {"nut", "nut-server"} \cap packages = {}
                               /\ {"conf", "creds"} \cap files = {}
                               /\ mode = "none" /\ watch = "none"

IInv ==
  /\ TypeOK /\ RunInv /\ ServiceInv /\ AbsentInv /\ SetupInv /\ RemovalInv
  /\ ServerInv /\ PairInv /\ AppliedInv /\ PurgedInv

USE DEF choice, nut, services, history, Active, Roles, Packages, Services, ExporterFiles,
        IsServer, Both, HasClient, Here, Passed, Fit, ComesBack, InPlace, Pair

-----------------------------------------------------------------------------
\* The walk over the roles.

\* A run starts with no role passed.
LEMMA StartKeeps == IInv /\ (StartApply \/ StartUninstall) => IInv'
<1> SUFFICES ASSUME IInv, StartApply \/ StartUninstall PROVE IInv'
  OBVIOUS
<1>1. /\ UNCHANGED <<choice, nut, services, at, script>>
      /\ run \notin Active /\ run' \in Active /\ todo' \subseteq roles
      /\ run' = "applying" \/ run' = "purging" => todo' = roles
      /\ UNCHANGED spoiled /\ ~failed'
      /\ IF run' = "purging one" THEN disturbed' ELSE disturbed' <=> disturbed
  <2>1. CASE StartApply
    BY <2>1 DEF StartApply
  <2>2. CASE StartUninstall
    <3>1. PICK purge \in BOOLEAN, chosen \in {roles} \cup {{r} : r \in roles} :
            /\ run' = IF ~purge THEN "removing" ELSE IF chosen = roles THEN "purging" ELSE "purging one"
            /\ todo' = chosen
            /\ disturbed' = (disturbed \/ (purge /\ chosen # roles))
      BY <2>2 DEF StartUninstall
    <3>2. chosen \subseteq roles
      OBVIOUS
    <3>3. IF run' = "purging one" THEN disturbed' ELSE disturbed' <=> disturbed
      BY <3>1
    <3>4. QED
      BY <2>2, <3>1, <3>2, <3>3 DEF StartUninstall
  <2>3. QED
    BY <2>1, <2>2
<1>2. script = "none"
  BY <1>1 DEF IInv, TypeOK
<1>3. TypeOK'
  BY <1>1 DEF IInv, TypeOK
<1>4. RunInv'
  BY <1>1, <1>2 DEF IInv, RunInv
<1>5. ServiceInv' /\ AbsentInv' /\ SetupInv' /\ RemovalInv'
  BY <1>1, <1>2 DEF IInv, ServiceInv, AbsentInv, SetupInv, RemovalInv
<1>6. ServerInv'
  BY <1>1, <1>2 DEF IInv, ServerInv
<1>7. PairInv'
  BY <1>1, <1>2 DEF IInv, PairInv
<1>8. AppliedInv' /\ PurgedInv'
  BY <1>1 DEF AppliedInv, PurgedInv
<1>9. QED
  BY <1>3, <1>4, <1>5, <1>6, <1>7, <1>8 DEF IInv

\* A role that Detect finds in order is: an unspoiled server that runs is whole,
\* and so is, with its monitor, the server of an undisturbed pair.
LEMMA DetectedIsInPlace ==
  ASSUME IInv, script = "none", run = "applying"
  PROVE  /\ Detected("exporter") => InPlace("exporter")
         /\ Detected("nut-client") => InPlace("nut-client")
         /\ Detected("nut-server") /\ IsServer /\ ~HasClient /\ ~spoiled => InPlace("nut-server")
         /\ Detected("nut-server") /\ Pair => "creds" \in files
         /\ Pair /\ "creds" \in files => Detected("nut-client")
<1>1. /\ Detected("exporter") => InPlace("exporter")
      /\ Detected("nut-client") => InPlace("nut-client")
  BY DEF Detected, IInv, ServiceInv
<1>2. Detected("nut-server") /\ IsServer /\ ~HasClient /\ ~spoiled => InPlace("nut-server")
  BY DEF Detected, IInv, ServerInv
<1>3. /\ Detected("nut-server") /\ Pair => "creds" \in files
      /\ Pair /\ "creds" \in files => Detected("nut-client")
  BY DEF Detected, IInv, PairInv
<1>4. QED
  BY <1>1, <1>2, <1>3

\* The next role is begun, or skipped when it is in order.
LEMMA BeginKeeps == IInv /\ BeginRole => IInv'
<1> SUFFICES ASSUME IInv, BeginRole PROVE IInv'
  OBVIOUS
<1>1. PICK r \in Roles : r \in todo /\ at' = r /\ todo' = todo \ {r} /\ script' = FirstStep(r)
  BY DEF BeginRole, IsNext
<1>2. /\ run \in Active /\ script = "none" /\ r \in roles /\ r \notin todo'
      /\ UNCHANGED <<choice, nut, services, run, failed, history>>
  BY <1>1 DEF BeginRole, IInv, TypeOK
<1> USE <1>1, <1>2 DEF IInv
<1>3. script' \in {"none", "install", "fetch", "binary", "rm etc", "purge client", "halt"}
  BY DEF FirstStep, RemovalFirst, SetupFirst
<1>4. TypeOK' /\ RunInv' /\ ServiceInv' /\ AbsentInv' /\ SetupInv' /\ RemovalInv'
  <2>1. TypeOK'
    BY DEF TypeOK
  <2>2. RunInv'
    BY DEF FirstStep, RemovalFirst, SetupFirst, RunInv
  <2>3. ServiceInv' /\ AbsentInv' /\ SetupInv' /\ RemovalInv'
    BY <1>3 DEF ServiceInv, AbsentInv, SetupInv, RemovalInv
  <2>4. QED
    BY <2>1, <2>2, <2>3
<1>5. ServerInv'
  BY DEF ServerInv
<1>6. PairInv'
  BY DetectedIsInPlace DEF FirstStep, SetupFirst, PairInv
<1>7. AppliedInv'
  <2> SUFFICES ASSUME run \in {"applying", "ok"} PROVE AppliedInv'
    BY DEF AppliedInv
  <2>1. run = "applying" /\ AppliedInv
    BY DEF AppliedInv
  <2>2. CASE script' # "none"
    BY <2>1, <2>2 DEF AppliedInv
  <2>3. CASE script' = "none"
    BY <2>1, <2>3, DetectedIsInPlace DEF AppliedInv, FirstStep, SetupFirst
  <2>4. QED
    BY <2>2, <2>3
<1>8. PurgedInv'
  BY DEF PurgedInv, FirstStep, RemovalFirst
<1>9. QED
  BY <1>4, <1>5, <1>6, <1>7, <1>8

\* A role whose Plan fails is not passed.
LEMMA PlanFailsKeeps == IInv /\ PlanFails => IInv'
<1> SUFFICES ASSUME IInv, PlanFails PROVE IInv'
  OBVIOUS
<1>1. /\ run = "applying" /\ script = "none" /\ failed' /\ todo' \subseteq todo /\ at' \in todo
      /\ UNCHANGED <<choice, nut, services, run, script, history>>
  BY DEF PlanFails, IsNext
<1>2. at' \in roles
  BY <1>1 DEF IInv, TypeOK
<1> USE <1>1, <1>2 DEF IInv
<1>3. TypeOK' /\ RunInv'
  BY DEF TypeOK, RunInv
<1>4. ServiceInv' /\ AbsentInv' /\ SetupInv' /\ RemovalInv'
  BY DEF ServiceInv, AbsentInv, SetupInv, RemovalInv
<1>5. ServerInv' /\ PairInv' /\ AppliedInv' /\ PurgedInv'
  BY DEF ServerInv, PairInv, AppliedInv, PurgedInv
<1>6. QED
  BY <1>3, <1>4, <1>5

\* A purge that has failed has disturbed the host; one that has not has left
\* nothing a pair could start from.
LEMMA EndRunKeeps == IInv /\ EndRun => IInv'
<1> SUFFICES ASSUME IInv, EndRun PROVE IInv'
  OBVIOUS
<1>1. /\ run \in Active /\ script = "none" /\ todo = {} /\ at' = "none"
      /\ run' = IF failed THEN "partial"
                ELSE IF run = "applying" THEN "ok" ELSE IF run = "purging" THEN "purged" ELSE "removed"
      /\ spoiled' = (spoiled /\ run' # "purged") /\ disturbed' = (disturbed /\ run' # "purged")
      /\ UNCHANGED <<choice, nut, services, todo, script, failed>>
  BY DEF EndRun
<1> USE DEF IInv
<1>2. TypeOK' /\ RunInv'
  BY <1>1 DEF TypeOK, RunInv
<1>3. ServiceInv' /\ AbsentInv' /\ SetupInv' /\ RemovalInv'
  BY <1>1 DEF ServiceInv, AbsentInv, SetupInv, RemovalInv
<1>4. run' = "purged" /\ IsServer => {"conf", "creds"} \cap files = {} /\ "nut-server" \notin running
  BY <1>1 DEF PurgedInv, ServiceInv
<1>5. ServerInv'
  BY <1>1, <1>4 DEF ServerInv
<1>6. PairInv'
  BY <1>1, <1>4 DEF PairInv, RunInv
<1>7. AppliedInv'
  BY <1>1 DEF AppliedInv
<1>8. PurgedInv'
  BY <1>1 DEF PurgedInv
<1>9. QED
  BY <1>2, <1>3, <1>5, <1>6, <1>7, <1>8

-----------------------------------------------------------------------------
\* Scripts that set up.

\* What a step of a script leaves alone: the books of the run, the exporter, the
\* other two roles.
Framed == UNCHANGED <<choice, run, todo, at, failed, history>>
ExporterAlone ==
  /\ \A f \in ExporterFiles : f \in files' <=> f \in files
  /\ "nut-exporter" \in running' => "nut-exporter" \in running
  /\ "nut-exporter" \in enabled => "nut-exporter" \in enabled'
NutAlone ==
  /\ UNCHANGED <<packages, mode, watch>>
  /\ \A f \in {"conf", "creds"} : f \in files' <=> f \in files
  /\ \A s \in {"nut-server", "nut-monitor"} : /\ s \in running' <=> s \in running
                                              /\ s \in enabled' <=> s \in enabled

\* Nothing is said of a server, or of a client without one, while its script is
\* under way, and the client's never runs on an undisturbed pair: it ends at its
\* first step, since it waits for credentials that a whole server would have.
LEMMA NutStepKeeps ==
  ASSUME IInv, run = "applying", at \in {"nut-server", "nut-client"}, script # "none",
         Framed, ExporterAlone,
         script = "fetch" /\ IsServer => "creds" \in files,
         at = "nut-server" => script' # "none",
         at = "nut-client" => script' # "none" \/ InPlace("nut-client")'
  PROVE  ServerInv' /\ PairInv' /\ AppliedInv' /\ PurgedInv'
<1> USE DEF Framed, ExporterAlone, IInv, TypeOK
<1>1. ServerInv' /\ PurgedInv'
  BY DEF ServerInv, PurgedInv
<1>2. at = "nut-client" => ~Pair
  BY DEF PairInv
<1>3. PairInv'
  BY <1>2 DEF PairInv
<1>4. AppliedInv'
  BY <1>2 DEF AppliedInv
<1>5. QED
  BY <1>1, <1>3, <1>4

\* The scripts of the exporter touch nothing of the other two roles.
LEMMA ExporterStepKeeps ==
  ASSUME IInv, at = "exporter", script # "none", Framed, NutAlone,
         run = "applying" => script' # "none" \/ InPlace("exporter")',
         run # "applying" => script' # "none" \/ ExporterFiles \cap files' = {}
  PROVE  ServerInv' /\ PairInv' /\ AppliedInv' /\ PurgedInv'
<1> USE DEF Framed, NutAlone, IInv, TypeOK
<1>1. ServerInv' /\ PairInv'
  BY DEF ServerInv, PairInv
<1>2. AppliedInv'
  BY DEF AppliedInv
<1>3. PurgedInv'
  BY DEF PurgedInv
<1>4. QED
  BY <1>1, <1>2, <1>3

\* The credentials of a server are read, and nothing is written.
LEMMA FetchKeeps == IInv /\ Fetch => IInv'
<1> SUFFICES ASSUME IInv, Fetch PROVE IInv'
  OBVIOUS
<1> USE DEF Fetch, From, IInv
<1>1. TypeOK' /\ RunInv'
  BY DEF TypeOK, RunInv
<1>2. ServiceInv' /\ AbsentInv' /\ SetupInv' /\ RemovalInv'
  BY DEF RunInv, ServiceInv, AbsentInv, SetupInv, RemovalInv
<1>3. ServerInv' /\ PairInv' /\ AppliedInv' /\ PurgedInv'
  BY NutStepKeeps, ExporterStepKeeps DEF RunInv, Framed, NutAlone, ExporterAlone
<1>4. QED
  BY <1>1, <1>2, <1>3

\* Packages come with their role.
LEMMA InstallKeeps == IInv /\ Install => IInv'
<1> SUFFICES ASSUME IInv, Install PROVE IInv'
  OBVIOUS
<1>1. /\ From("install", "mode") /\ UNCHANGED <<files, mode, watch, running>>
      /\ packages' = packages \cup (IF at = "nut-server" THEN Packages ELSE {"nut-client"})
      /\ enabled \subseteq enabled' /\ enabled' \subseteq enabled \cup {"nut-server", "nut-monitor"}
  BY DEF Install
<1> USE <1>1 DEF From, IInv
<1>2. TypeOK' /\ RunInv'
  BY DEF TypeOK, RunInv
<1>3. ServiceInv' /\ AbsentInv'
  BY DEF TypeOK, RunInv, ServiceInv, AbsentInv
<1>4. SetupInv' /\ RemovalInv'
  BY DEF RunInv, SetupInv, RemovalInv
<1>5. ServerInv' /\ PairInv' /\ AppliedInv' /\ PurgedInv'
  BY NutStepKeeps DEF RunInv, Framed, ExporterAlone
<1>6. QED
  BY <1>2, <1>3, <1>4, <1>5

\* MODE is written once the package is there.
LEMMA SetModeKeeps == IInv /\ SetMode => IInv'
<1> SUFFICES ASSUME IInv, SetMode PROVE IInv'
  OBVIOUS
<1> USE DEF SetMode, From, IInv
<1>1. TypeOK' /\ RunInv'
  BY DEF TypeOK, RunInv
<1>2. ServiceInv' /\ AbsentInv' /\ SetupInv' /\ RemovalInv'
  BY DEF RunInv, ServiceInv, AbsentInv, SetupInv, RemovalInv
<1>3. ServerInv' /\ PairInv' /\ AppliedInv' /\ PurgedInv'
  BY NutStepKeeps DEF RunInv, Framed, ExporterAlone
<1>4. QED
  BY <1>1, <1>2, <1>3

\* The configuration comes after MODE.
LEMMA WriteConfKeeps == IInv /\ WriteConf => IInv'
<1> SUFFICES ASSUME IInv, WriteConf PROVE IInv'
  OBVIOUS
<1>1. /\ script = "conf" /\ at \in {"nut-server", "nut-client"} /\ Framed
      /\ script' = IF at = "nut-server" THEN "stop" ELSE "monitor"
      /\ watch' = IF at = "nut-server" THEN "primary" ELSE "secondary"
      /\ files' = IF at = "nut-server" THEN files \cup {"conf"} ELSE files
      /\ UNCHANGED <<packages, mode, services>>
  BY DEF WriteConf, From, Framed
<1> USE <1>1 DEF Framed, IInv
<1>2. TypeOK' /\ RunInv'
  BY DEF TypeOK, RunInv
<1>3. ServiceInv' /\ AbsentInv'
  BY DEF TypeOK, SetupInv, ServiceInv, AbsentInv
<1>4. SetupInv' /\ RemovalInv'
  BY DEF RunInv, SetupInv, RemovalInv
<1>5. ServerInv' /\ PairInv' /\ AppliedInv' /\ PurgedInv'
  BY NutStepKeeps DEF RunInv, ExporterAlone
<1>6. QED
  BY <1>2, <1>3, <1>4, <1>5

\* Services are started once they are configured.
LEMMA ServicesKeep == IInv /\ (StopServices \/ StartServer \/ RestartMonitor) => IInv'
<1> SUFFICES ASSUME IInv, StopServices \/ StartServer \/ RestartMonitor PROVE IInv'
  OBVIOUS
<1> USE DEF StopServices, StartServer, RestartMonitor, From, IInv
<1>1. TypeOK' /\ RunInv'
  <2>1. TypeOK'
    BY DEF TypeOK
  <2>2. /\ script \in {"stop", "serve", "monitor"} /\ Framed
        /\ script' \in {"serve", "monitor", "creds", "test"}
        /\ script' \in {"serve", "creds"} => at = "nut-server"
        /\ script' = "test" => at = "nut-client"
        /\ script' = "monitor" => at = "nut-server"
    BY DEF RunInv, Framed
  <2>3. RunInv'
    BY <2>2 DEF Framed, RunInv
  <2>4. QED
    BY <2>1, <2>3
<1>2. ServiceInv' /\ AbsentInv'
  BY DEF RunInv, SetupInv, ServiceInv, AbsentInv
<1>3. SetupInv' /\ RemovalInv'
  BY DEF RunInv, SetupInv, RemovalInv
<1>4. ServerInv' /\ PairInv' /\ AppliedInv' /\ PurgedInv'
  BY NutStepKeeps DEF RunInv, Framed, ExporterAlone
<1>5. QED
  BY <1>1, <1>2, <1>3, <1>4

\* The end of the server's script: all of it is in place, and so is its monitor.
LEMMA WriteCredsKeeps == IInv /\ WriteCreds => IInv'
<1> SUFFICES ASSUME IInv, WriteCreds PROVE IInv'
  OBVIOUS
<1> USE DEF WriteCreds, From, IInv
<1>1. TypeOK' /\ RunInv'
  BY DEF TypeOK, RunInv
<1>2. ServiceInv' /\ AbsentInv' /\ SetupInv' /\ RemovalInv'
  BY DEF TypeOK, RunInv, ServiceInv, AbsentInv, SetupInv, RemovalInv
<1>3. InPlace("nut-server")' /\ "nut-client" \in packages' /\ "nut-monitor" \in enabled' \cap running'
  BY DEF RunInv, SetupInv
<1>4. ServerInv' /\ PairInv'
  BY <1>3 DEF RunInv, ServerInv, PairInv
<1>5. AppliedInv' /\ PurgedInv'
  BY <1>3 DEF RunInv, AppliedInv, PurgedInv
<1>6. QED
  BY <1>1, <1>2, <1>4, <1>5

\* The end of the client's script.
LEMMA TestKeeps == IInv /\ Test => IInv'
<1> SUFFICES ASSUME IInv, Test PROVE IInv'
  OBVIOUS
<1> USE DEF Test, From, IInv
<1>1. TypeOK' /\ RunInv'
  BY DEF TypeOK, RunInv
<1>2. ServiceInv' /\ AbsentInv' /\ SetupInv' /\ RemovalInv'
  BY DEF ServiceInv, AbsentInv, SetupInv, RemovalInv
<1>3. ServerInv' /\ PairInv' /\ AppliedInv' /\ PurgedInv'
  BY NutStepKeeps DEF RunInv, SetupInv, Framed, ExporterAlone
<1>4. QED
  BY <1>1, <1>2, <1>3

\* The exporter is stopped before its files change, and started once they are there.
LEMMA ExporterSetupKeeps == IInv /\ (InstallExporter \/ StartExporter) => IInv'
<1> SUFFICES ASSUME IInv, InstallExporter \/ StartExporter PROVE IInv'
  OBVIOUS
<1>1. CASE From("binary", "env") /\ files' = files \cup {"binary"} /\ running' = running \ {"nut-exporter"}
           /\ UNCHANGED <<packages, mode, watch, enabled>>
  <2> USE <1>1 DEF From, IInv
  <2>1. TypeOK' /\ RunInv'
    BY DEF TypeOK, RunInv
  <2>2. ServiceInv' /\ AbsentInv' /\ SetupInv' /\ RemovalInv'
    BY DEF TypeOK, RunInv, ServiceInv, AbsentInv, SetupInv, RemovalInv
  <2>3. ServerInv' /\ PairInv' /\ AppliedInv' /\ PurgedInv'
    BY ExporterStepKeeps DEF RunInv, Framed, NutAlone
  <2>4. QED
    BY <2>1, <2>2, <2>3
<1>2. ASSUME NEW f \in {"env", "unit"}, From(f, IF f = "env" THEN "unit" ELSE "start"),
             files' = files \cup {f}, UNCHANGED <<packages, mode, watch, services>>
      PROVE  IInv'
  <2> USE <1>2 DEF From, IInv
  <2>1. TypeOK' /\ RunInv'
    BY DEF TypeOK, RunInv
  <2>2. ServiceInv' /\ AbsentInv' /\ SetupInv' /\ RemovalInv'
    BY DEF TypeOK, RunInv, ServiceInv, AbsentInv, SetupInv, RemovalInv
  <2>3. ServerInv' /\ PairInv' /\ AppliedInv' /\ PurgedInv'
    BY ExporterStepKeeps DEF RunInv, Framed, NutAlone
  <2>4. QED
    BY <2>1, <2>2, <2>3
<1>3. CASE StartExporter
  <2> USE <1>3 DEF StartExporter, From, IInv
  <2>1. TypeOK' /\ RunInv'
    BY DEF TypeOK, RunInv, SetupInv
  <2>2. ServiceInv' /\ AbsentInv' /\ SetupInv' /\ RemovalInv'
    BY DEF TypeOK, RunInv, ServiceInv, AbsentInv, SetupInv, RemovalInv
  <2>3. ServerInv' /\ PairInv' /\ AppliedInv' /\ PurgedInv'
    BY ExporterStepKeeps DEF RunInv, SetupInv, Framed, NutAlone
  <2>4. QED
    BY <2>1, <2>2, <2>3
<1>4. QED
  BY <1>1, <1>2, <1>3 DEF InstallExporter

-----------------------------------------------------------------------------
\* Scripts that remove.

\* The exporter is stopped and disabled before its unit goes.
LEMMA RemoveUnitKeeps == IInv /\ RemoveUnit => IInv'
<1> SUFFICES ASSUME IInv, RemoveUnit PROVE IInv'
  OBVIOUS
<1>1. /\ script \in {"halt", "disable", "rm unit"} /\ Framed /\ UNCHANGED <<packages, mode, watch>>
      /\ script' = CASE script = "halt" -> "disable" [] script = "disable" -> "rm unit" [] OTHER -> "rm binary"
      /\ running' = IF script = "halt" THEN running \ {"nut-exporter"} ELSE running
      /\ enabled' = IF script = "disable" THEN enabled \ {"nut-exporter"} ELSE enabled
      /\ files' = IF script = "rm unit" THEN files \ {"unit"} ELSE files
  BY DEF RemoveUnit, From, Framed
<1> USE <1>1 DEF Framed, IInv
<1>2. TypeOK'
  BY DEF TypeOK, RemovalInv
<1>3. RunInv'
  BY DEF RunInv
<1>4. ServiceInv' /\ AbsentInv'
  BY DEF RemovalInv, ServiceInv, AbsentInv
<1>5. SetupInv' /\ RemovalInv'
  BY DEF RunInv, SetupInv, RemovalInv
<1>6. ServerInv' /\ PairInv' /\ AppliedInv' /\ PurgedInv'
  BY ExporterStepKeeps DEF RunInv, NutAlone
<1>7. QED
  BY <1>2, <1>3, <1>4, <1>5, <1>6

\* Files go once nothing that runs needs them.
LEMMA RemoveFileKeeps == IInv /\ RemoveFile => IInv'
<1> SUFFICES ASSUME IInv, RemoveFile PROVE IInv'
  OBVIOUS
<1> USE DEF IInv
\* The exporter's, which is stopped.
<1>1. ASSUME script \in {"rm binary", "rm env"}, Framed, UNCHANGED <<packages, services, mode, watch>>,
             script' = IF script = "rm binary" THEN "rm env" ELSE "none",
             files' = files \ {IF script = "rm binary" THEN "binary" ELSE "env"}
      PROVE  IInv'
  <2> USE <1>1 DEF Framed
  <2>1. TypeOK'
    BY DEF TypeOK, RunInv, RemovalInv
  <2>2. RunInv'
    BY DEF RunInv
  <2>3. ServiceInv' /\ AbsentInv' /\ SetupInv' /\ RemovalInv'
    BY DEF RunInv, ServiceInv, AbsentInv, SetupInv, RemovalInv
  <2>4. ServerInv' /\ PairInv' /\ AppliedInv' /\ PurgedInv'
    BY ExporterStepKeeps DEF RunInv, RemovalInv, NutAlone
  <2>5. QED
    BY <2>1, <2>2, <2>3, <2>4
\* The server's.
<1>2. ASSUME script \in {"rm etc", "rm creds"}, Framed, UNCHANGED <<packages, services>>,
             script' = IF script = "rm etc" THEN "rm creds" ELSE "purge server",
             files' = files \ {IF script = "rm etc" THEN "conf" ELSE "creds"},
             mode' = IF script = "rm etc" THEN "none" ELSE mode,
             watch' = IF script = "rm etc" THEN "none" ELSE watch
      PROVE  IInv'
  <2> USE <1>2 DEF Framed
  <2>1. TypeOK'
    BY DEF TypeOK
  <2>2. RunInv'
    BY DEF RunInv
  <2>3. ServiceInv' /\ AbsentInv' /\ SetupInv' /\ RemovalInv'
    BY DEF RunInv, ServiceInv, AbsentInv, SetupInv, RemovalInv
  <2>4. ServerInv' /\ PairInv' /\ AppliedInv' /\ PurgedInv'
    BY DEF TypeOK, RunInv, ServerInv, PairInv, AppliedInv, PurgedInv
  <2>5. QED
    BY <2>1, <2>2, <2>3, <2>4
<1>3. QED
  <2>1. CASE script \in {"rm binary", "rm env"}
    BY <2>1, <1>1 DEF RemoveFile, From, Framed
  <2>2. CASE script \in {"rm etc", "rm creds"}
    BY <2>2, <1>2 DEF RemoveFile, From, Framed
  <2>3. QED
    BY <2>1, <2>2 DEF RemoveFile, From

\* A package goes with its services and conffiles.  Which of those that depend on
\* it go as well does not matter.
LEMMA PurgedEffect ==
  ASSUME TypeOK, ServiceInv, NEW p \in Packages, Purged(p)
  PROVE  /\ packages' \subseteq packages \ {p}
         /\ running' \subseteq running /\ enabled' \subseteq enabled
         /\ files' \in {files, files \ {"conf"}}
         /\ "nut-client" \in packages' =>
              /\ UNCHANGED <<mode, watch>>
              /\ "nut-monitor" \in running' <=> "nut-monitor" \in running
              /\ "nut-monitor" \in enabled' <=> "nut-monitor" \in enabled
         /\ "nut-client" \notin packages' =>
              "nut-monitor" \notin running' /\ mode' = "none" /\ watch' = "none"
         /\ "nut-server" \in packages' =>
              /\ UNCHANGED files
              /\ "nut-server" \in running' <=> "nut-server" \in running
         /\ "nut-server" \notin packages' => "nut-server" \notin running' /\ "conf" \notin files'
         /\ "nut-exporter" \in running' <=> "nut-exporter" \in running
         /\ "nut-exporter" \in enabled' <=> "nut-exporter" \in enabled
         /\ p # "nut-client" => ("nut-client" \in packages' <=> "nut-client" \in packages)
<1>1. PICK more \in SUBSET Dependents(p) :
        LET gone == IF p \in packages THEN {p} \cup more ELSE {}
            dead == (IF "nut-server" \in gone THEN {"nut-server"} ELSE {})
                      \cup (IF "nut-client" \in gone THEN {"nut-monitor"} ELSE {})
        IN  /\ packages' = packages \ gone
            /\ running' = running \ dead /\ enabled' = enabled \ dead
            /\ files' = IF "nut-server" \in gone THEN files \ {"conf"} ELSE files
            /\ IF "nut-client" \in gone THEN mode' = "none" /\ watch' = "none"
                                        ELSE UNCHANGED <<mode, watch>>
  BY DEF Purged
<1>2. p # "nut-client" => "nut-client" \notin more
  BY DEF Dependents
<1>3. QED
  BY <1>1, <1>2 DEF ServiceInv

\* The end of the client's removal.
LEMMA PurgeClientKeeps == IInv /\ Purge("purge client", "nut-client", "none") => IInv'
<1> SUFFICES ASSUME IInv, From("purge client", "none"), Purged("nut-client") PROVE IInv'
  BY DEF Purge
<1> USE PurgedEffect DEF From, IInv
<1>1. TypeOK' /\ RunInv'
  <2>1. TypeOK'
    BY DEF TypeOK
  <2>2. RunInv'
    BY DEF RunInv
  <2>3. QED
    BY <2>1, <2>2
<1>2. ServiceInv' /\ AbsentInv' /\ SetupInv' /\ RemovalInv'
  BY DEF RunInv, ServiceInv, AbsentInv, SetupInv, RemovalInv
<1>3. ServerInv' /\ PairInv'
  BY DEF TypeOK, RunInv, ServerInv, PairInv
<1>4. AppliedInv' /\ PurgedInv'
  BY DEF TypeOK, RunInv, AppliedInv, PurgedInv
<1>5. QED
  BY <1>1, <1>2, <1>3, <1>4

\* The server's package goes once its configuration has.
LEMMA PurgeServerKeeps == IInv /\ Purge("purge server", "nut-server", "purge nut") => IInv'
<1> SUFFICES ASSUME IInv, From("purge server", "purge nut"), Purged("nut-server") PROVE IInv'
  BY DEF Purge
<1> USE PurgedEffect DEF From, IInv
<1>1. TypeOK' /\ RunInv'
  <2>1. TypeOK'
    BY DEF TypeOK
  <2>2. RunInv'
    BY DEF RunInv
  <2>3. QED
    BY <2>1, <2>2
<1>2. ServiceInv' /\ AbsentInv' /\ SetupInv' /\ RemovalInv'
  BY DEF RunInv, ServiceInv, AbsentInv, SetupInv, RemovalInv
<1>3. ServerInv' /\ PairInv'
  BY DEF TypeOK, RunInv, ServerInv, PairInv
<1>4. AppliedInv' /\ PurgedInv'
  BY DEF TypeOK, RunInv, AppliedInv, PurgedInv
<1>5. QED
  BY <1>1, <1>2, <1>3, <1>4

\* The end of the server's removal.
LEMMA PurgeNutKeeps == IInv /\ Purge("purge nut", "nut", "none") => IInv'
<1> SUFFICES ASSUME IInv, From("purge nut", "none"), Purged("nut") PROVE IInv'
  BY DEF Purge
<1> USE PurgedEffect DEF From, IInv
<1>1. TypeOK' /\ RunInv'
  <2>1. TypeOK'
    BY DEF TypeOK
  <2>2. RunInv'
    BY DEF RunInv
  <2>3. QED
    BY <2>1, <2>2
<1>2. ServiceInv' /\ AbsentInv' /\ SetupInv' /\ RemovalInv'
  BY DEF RunInv, ServiceInv, AbsentInv, SetupInv, RemovalInv
<1>3. ServerInv' /\ PairInv'
  BY DEF TypeOK, RunInv, RemovalInv, ServerInv, PairInv
<1>4. AppliedInv'
  BY DEF RunInv, AppliedInv
<1>5. PurgedInv'
  BY DEF RunInv, RemovalInv, PurgedInv
<1>6. QED
  BY <1>1, <1>2, <1>3, <1>4, <1>5

-----------------------------------------------------------------------------
\* Failures, and what happens besides.

\* A step that only fails promises nothing more of the run, nor of a server or a
\* pair whose script it is.
LEMMA FailureKeeps ==
  ASSUME IInv, script # "none", UNCHANGED <<choice, nut, services, run, at>>,
         failed', disturbed', spoiled' <=> (spoiled \/ at = "nut-server"), todo' \subseteq todo,
         script' = "none" \/ (script = "purge server" /\ script' = "purge nut")
  PROVE  IInv'
<1> USE DEF IInv
<1>1. TypeOK' /\ RunInv'
  BY DEF TypeOK, RunInv
<1>2. ServiceInv' /\ AbsentInv' /\ SetupInv' /\ RemovalInv'
  BY DEF RunInv, ServiceInv, AbsentInv, SetupInv, RemovalInv
<1>3. ServerInv' /\ PairInv' /\ AppliedInv' /\ PurgedInv'
  BY DEF RunInv, ServerInv, PairInv, AppliedInv, PurgedInv
<1>4. QED
  BY <1>1, <1>2, <1>3

\* A script that is cut fails.
LEMMA CutKeeps == IInv /\ Cut => IInv'
  BY FailureKeeps DEF Cut

\* Nothing is promised of a pair whose monitor has stopped.
LEMMA ServiceStopsKeeps == IInv /\ ServiceStops => IInv'
<1> SUFFICES ASSUME IInv, ServiceStops PROVE IInv'
  OBVIOUS
<1>1. /\ script = "none" /\ running' \subseteq running
      /\ disturbed' \/ ((disturbed' <=> disturbed) /\ ("nut-monitor" \in running => "nut-monitor" \in running'))
      /\ UNCHANGED <<choice, nut, enabled, run, todo, at, script, failed, spoiled>>
  <2>1. PICK s \in running : running' = running \ {s} /\ disturbed' = (disturbed \/ s = "nut-monitor")
    BY DEF ServiceStops
  <2>2. QED
    BY <2>1 DEF ServiceStops
<1> USE <1>1 DEF IInv
<1>2. TypeOK' /\ RunInv'
  <2>1. TypeOK'
    BY DEF TypeOK
  <2>2. RunInv'
    BY DEF RunInv
  <2>3. QED
    BY <2>1, <2>2
<1>3. ServiceInv' /\ AbsentInv' /\ SetupInv' /\ RemovalInv'
  BY DEF ServiceInv, AbsentInv, SetupInv, RemovalInv
<1>4. ServerInv' /\ PairInv'
  BY DEF RunInv, ServerInv, PairInv
<1>5. AppliedInv' /\ PurgedInv'
  BY DEF AppliedInv, PurgedInv
<1>6. QED
  BY <1>2, <1>3, <1>4, <1>5

\* What a boot starts is enabled and has its files.
LEMMA BootKeeps == IInv /\ Boot => IInv'
<1> SUFFICES ASSUME IInv, Boot PROVE IInv'
  OBVIOUS
<1> USE DEF Boot, IInv
<1>1. TypeOK' /\ RunInv'
  BY DEF TypeOK, RunInv
<1>2. ServiceInv' /\ AbsentInv' /\ SetupInv' /\ RemovalInv'
  BY DEF ServiceInv, AbsentInv, SetupInv, RemovalInv
<1>3. ServerInv' /\ PairInv'
  BY DEF ServerInv, PairInv
<1>4. AppliedInv' /\ PurgedInv'
  BY DEF AppliedInv, PurgedInv
<1>5. QED
  BY <1>1, <1>2, <1>3, <1>4

-----------------------------------------------------------------------------
\* The theorems.

\* Every step keeps the invariant.
LEMMA Step == IInv /\ [Next]_vars => IInv'
<1> SUFFICES ASSUME IInv, [Next]_vars PROVE IInv'
  OBVIOUS
<1>1. CASE StartApply \/ StartUninstall \/ BeginRole \/ PlanFails \/ EndRun
  BY <1>1, StartKeeps, BeginKeeps, PlanFailsKeeps, EndRunKeeps
<1>2. CASE Fetch \/ Install \/ SetMode \/ WriteConf \/ StopServices \/ StartServer \/ RestartMonitor
             \/ WriteCreds \/ Test \/ InstallExporter \/ StartExporter
  BY <1>2, FetchKeeps, InstallKeeps, SetModeKeeps, WriteConfKeeps, ServicesKeep,
     WriteCredsKeeps, TestKeeps, ExporterSetupKeeps
<1>3. CASE RemoveUnit \/ RemoveFile
  BY <1>3, RemoveUnitKeeps, RemoveFileKeeps
<1>4. CASE \/ PurgeStep("purge client", "nut-client", "none")
           \/ PurgeStep("purge server", "nut-server", "purge nut")
           \/ PurgeStep("purge nut", "nut", "none")
  BY <1>4, PurgeClientKeeps, PurgeServerKeeps, PurgeNutKeeps, FailureKeeps
  DEF PurgeStep, PurgeFails
<1>5. CASE Cut \/ ServiceStops \/ Boot
  BY <1>5, CutKeeps, ServiceStopsKeeps, BootKeeps
<1>6. CASE UNCHANGED vars
  <2>0. UNCHANGED <<choice, nut, services, run, todo, at, script, failed, history>>
    BY <1>6 DEF vars
  <2> USE <2>0 DEF IInv
  <2>1. TypeOK'
    BY DEF TypeOK
  <2>2. RunInv'
    BY DEF RunInv
  <2>3. ServiceInv' /\ AbsentInv'
    BY DEF ServiceInv, AbsentInv
  <2>4. SetupInv' /\ RemovalInv'
    BY DEF SetupInv, RemovalInv
  <2>5. ServerInv' /\ PairInv'
    BY DEF ServerInv, PairInv
  <2>6. AppliedInv' /\ PurgedInv'
    BY DEF AppliedInv, PurgedInv
  <2>7. QED
    BY <2>1, <2>2, <2>3, <2>4, <2>5, <2>6
<1>7. QED
  BY <1>1, <1>2, <1>3, <1>4, <1>5, <1>6 DEF Next, ScriptStep

\* What the roles of a host have left on it, at any time.
THEOREM Invariant == Spec => []IInv
<1>1. Init => IInv
  BY DEF Init, IInv, TypeOK, RunInv, ServiceInv, AbsentInv, SetupInv, RemovalInv,
         ServerInv, PairInv, AppliedInv, PurgedInv
<1>2. QED
  BY <1>1, Step, PTL DEF Spec

\* Types; the exporter never runs on without its files, wherever a script is cut.
THEOREM Typing == Spec => []TypeOK
  BY Invariant, PTL DEF IInv

\* An apply that ends well leaves all roles in place for the next boot, and a purge
\* that ends well leaves nothing of them, within the exceptions EndsAsPromised names.
THEOREM KeepsWhatItSays == Spec => []EndsAsPromised
<1>1. IInv => EndsAsPromised
  <2> SUFFICES ASSUME IInv PROVE EndsAsPromised
    OBVIOUS
  <2> USE DEF IInv
  <2>1. ASSUME run = "ok", ~spoiled, Both => reads /\ ~disturbed, NEW r \in roles
        PROVE  InPlace(r)
    <3>1. Passed(r) /\ script = "none"
      BY <2>1 DEF TypeOK, RunInv
    <3>2. CASE r = "exporter"
      BY <2>1, <3>1, <3>2 DEF AppliedInv
    <3>3. CASE r # "exporter" /\ Both
      BY <2>1, <3>1, <3>3 DEF TypeOK, AppliedInv, PairInv, RunInv
    <3>4. CASE r # "exporter" /\ ~Both
      <4>1. r = "nut-client" => ~IsServer
        BY <3>4
      <4>2. r = "nut-server" => ~HasClient
        BY <3>4
      <4>3. r \in {"nut-client", "nut-server"}
        BY <3>4 DEF TypeOK
      <4>4. QED
        BY <2>1, <3>1, <4>1, <4>2, <4>3 DEF AppliedInv
    <3>5. QED
      BY <3>2, <3>3, <3>4
  <2>2. ASSUME run = "purged"
        PROVE  /\ files = {} /\ mode = "none" /\ watch = "none" /\ packages \subseteq {"nut-client"}
               /\ (IsServer /\ ~HasClient) \/ (packages = {} /\ running = {})
    <3>1. /\ "exporter" \in roles => ExporterFiles \cap files = {}
          /\ HasClient => "nut-client" \notin packages
          /\ IsServer => /\ {"nut", "nut-server"} \cap packages = {} /\ {"conf", "creds"} \cap files = {}
                         /\ mode = "none" /\ watch = "none"
      BY <2>2 DEF TypeOK, RunInv, PurgedInv
    <3>2. files = {} /\ packages \subseteq {"nut-client"}
      BY <3>1 DEF TypeOK, AbsentInv
    <3>3. mode = "none" /\ watch = "none"
      BY <3>1 DEF ServiceInv, AbsentInv
    <3>4. ~(IsServer /\ ~HasClient) => packages = {} /\ running = {}
      BY <3>1, <3>2 DEF TypeOK, ServiceInv, AbsentInv
    <3>5. QED
      BY <3>2, <3>3, <3>4
  <2>3. QED
    BY <2>1, <2>2 DEF EndsAsPromised
<1>2. QED
  BY <1>1, Invariant, PTL
==============================================================================
