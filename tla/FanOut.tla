------------------------------- MODULE FanOut -------------------------------
(***************************************************************************)
(* The commands that fan out over the hosts of the inventory and share one *)
(* SSH executor (internal/cli: backup.go, shutdown.go, logs.go): `backup'  *)
(* pulls a tarball of each host into a local file, `shutdown test' checks  *)
(* one host after the other, `logs --follow' streams one until Ctrl+C.     *)
(* They run one command on a host each and close its connection.           *)
(*                                                                         *)
(* The module adds to SshExecutor what these commands do around it: the    *)
(* loop and its semaphore, local files, results and the exit code.  In     *)
(* "roles" the callers are the goroutines of module Orchestrator, which    *)
(* run any commands and leave the connections to Executor.Close.           *)
(***************************************************************************)
EXTENDS SshExecutor, FiniteSets

CONSTANTS
  Commands,  \* which of the commands are looked at
  Limit      \* --concurrency of backup; 0 or less is no limit

ASSUME FanOutAssumption ==
  /\ Callers \subseteq Nat /\ IsFiniteSet(Callers)
  /\ Commands \subseteq {"roles", "backup", "test", "logs"}
  /\ Closers \subseteq Deadline
  /\ MaxCommands >= 1
  /\ Limit \in Int

VARIABLES
  command,  \* the command of this process
  targets,  \* the hosts it is about
  begun,    \* those whose goroutine, or turn, has begun
  file,     \* what is at the path of each host's tarball
  spoiled,  \* hosts of which a byte could not be written to the tarball
  result,   \* the outcome of each host: "none" yet, "ok", or what went wrong
  exit      \* "none" yet, "ok", "error", or "partial" (ExitApplyPartial)

fanVars == <<command, targets, begun, file, spoiled, result, exit>>
allVars == <<vars, fanVars>>

\* The hosts a command can be about.
Choices(cmd) ==
  CASE cmd = "roles"  -> {Callers \ Closers}
    [] cmd = "backup" -> {Closers} \cup {{c} : c \in Closers}
    [] cmd = "test"   -> SUBSET Closers
    [] cmd = "logs"   -> {{c} : c \in Closers}

\* A path that is used again is that of a single host: with --all it carries the
\* name of the host and the time.  A target of a test that has no shutdown command
\* is not connected to.
FanInit ==
  /\ Init
  /\ command \in Commands /\ targets \in Choices(command)
  /\ \E blank \in SUBSET targets :
       /\ blank # {} => command = "test"
       /\ pc = [c \in Callers |-> IF c \in targets \ blank THEN "idle" ELSE "done"]
       /\ result = [c \in Callers |-> IF c \in blank THEN "check" ELSE "none"]
  /\ begun = IF command = "roles" THEN targets ELSE {}
  /\ file \in [Callers -> {"absent", "earlier"}]
  /\ \A c \in Callers : file[c] = "earlier" => command = "backup" /\ targets = {c}
  /\ spoiled = {} /\ exit = "none"

-----------------------------------------------------------------------------
\* The loop.

\* normaliseConcurrency; shutdown test has no goroutines.
Parallel ==
  LET n == Cardinality(targets)
  IN  IF command = "test" THEN 1 ELSE IF Limit <= 0 \/ Limit > n THEN n ELSE Limit

Working == {c \in begun : pc[c] \notin Over}

\* Mutant: a host that could not be reached keeps its token.
SpawnLeaking ==
  \E c \in targets \ begun :
    /\ \A d \in targets \ begun : c <= d
    /\ Cardinality(Working \cup {d \in begun : result[d] = "ssh"}) < Parallel
    /\ begun' = begun \cup {c}
    /\ UNCHANGED <<vars, command, targets, file, spoiled, result, exit>>

\* The next host gets a token.
Spawn ==
  \E c \in targets \ begun :
    /\ \A d \in targets \ begun : c <= d
    /\ Cardinality(Working) < Parallel
    /\ begun' = begun \cup {c}
    /\ UNCHANGED <<vars, command, targets, file, spoiled, result, exit>>

\* Behind wg.Wait(): the results are printed and the exit code made from them.
Report ==
  /\ command # "roles" /\ exit = "none"
  /\ begun = targets /\ Working = {}
  /\ exit' = IF \A c \in targets : result[c] = "ok" THEN "ok"
             ELSE IF command = "logs" THEN "error" ELSE "partial"
  /\ UNCHANGED <<vars, command, targets, begun, file, spoiled, result>>

\* The deferred executor.Close().
CloseAll == Close /\ (command = "roles" \/ exit # "none") /\ UNCHANGED fanVars

-----------------------------------------------------------------------------
\* One host: backupHost, checkShutdownTarget, runLogs.

Outcome(c, r) ==
  /\ result' = [result EXCEPT ![c] = r]
  /\ UNCHANGED <<command, targets, begun, spoiled, exit>>

Quietly == UNCHANGED fanVars

\* Steps of Open: an error is the host's result, and its file is as it was.
Opening(c) ==
  /\ c \in begun
  /\ IF pc'[c] = "failed" THEN Outcome(c, "ssh") /\ UNCHANGED file ELSE Quietly

\* Run, Pipe or Stream has come back with an error: a tarball is removed.
Broken(c, r) ==
  /\ Outcome(c, r)
  /\ file' = IF command = "backup" THEN [file EXCEPT ![c] = "absent"] ELSE file

\* Steps of Run, Pipe and Stream.
Streaming(c) == IF pc'[c] = "failed" THEN Broken(c, "pipe") ELSE Quietly

\* os.Create empties the file at the path, whatever it was.
CreateFile(c) ==
  /\ command = "backup" /\ pc[c] = "session" /\ file[c] \in {"absent", "earlier"}
  /\ commands[c] = 0
  /\ file' = [file EXCEPT ![c] = "partial"]
  /\ UNCHANGED <<vars, command, targets, begun, spoiled, result, exit>>

CreateFails(c) ==
  /\ command = "backup" /\ pc[c] = "session" /\ file[c] \in {"absent", "earlier"}
  /\ Finish(c)
  /\ Outcome(c, "create") /\ UNCHANGED file

\* A closing command runs one command, a backup only with its file open.
Ready(c) ==
  command = "roles" \/ /\ commands[c] = 0 \/ pc[c] = "start"
                       /\ command = "backup" => file[c] = "partial"

\* The disk is full: io.Copy of the session stops, and Wait will report it.
WriteFails(c) ==
  /\ command = "backup" /\ pc[c] = "run" /\ c \notin spoiled
  /\ spoiled' = spoiled \cup {c}
  /\ UNCHANGED <<vars, command, targets, begun, file, result, exit>>

\* Mutant: an error of the writers is not an error of the command.
WaitDeaf(c) == WaitReturns(c) /\ Streaming(c)

Wait(c) ==
  /\ WaitReturns(c) /\ (c \in spoiled => pc'[c] = "failed")
  /\ Streaming(c)

\* Cancelled by a deadline, or by Ctrl+C, which is how logs --follow ends well.
Abandon(c) ==
  /\ GiveUp(c)
  /\ IF command = "logs" THEN Outcome(c, "ok") /\ UNCHANGED file ELSE Broken(c, "pipe")

\* The command has ended well: the file is closed, which may report an error of a
\* late write and then keeps what there is; a check says what it has found.
Return(c) ==
  /\ command = "roles" \/ commands[c] = 1
  /\ Finish(c)
  /\ \/ /\ command = "backup" /\ Outcome(c, "ok")
        /\ file' = [file EXCEPT ![c] = "whole"]
     \/ command = "backup" /\ Outcome(c, "write") /\ UNCHANGED file
     \/ command = "test" /\ Outcome(c, "check") /\ UNCHANGED file
     \/ command # "backup" /\ Outcome(c, "ok") /\ UNCHANGED file

-----------------------------------------------------------------------------
\* The timer of a host's context; in logs it is the user.
Timer(c) == c \in begun /\ Expire(c) /\ Quietly

Own(c) ==
  \/ (Lookup(c) \/ Connect(c) \/ Insert(c)) /\ Opening(c)
  \/ CreateFile(c) \/ CreateFails(c)
  \/ Ready(c) /\ SessionFails(c) /\ Streaming(c)
  \/ Wait(c)
  \/ Cancel(c) /\ Quietly
  \/ Abandon(c)
  \/ Return(c)

ByPeer(c) ==
  \/ Handshake(c) /\ Opening(c)
  \/ Ready(c) /\ (OpenSession(c) \/ StartCommand(c)) /\ Quietly

Outside(c) == (RemoteEnds(c) \/ PeerDrops(c)) /\ Quietly

FanNext ==
  \/ Spawn \/ Report \/ CloseAll
  \/ \E c \in Callers : Own(c) \/ ByPeer(c) \/ Timer(c) \/ WriteFails(c) \/ Outside(c)

FanSpec == FanInit /\ [][FanNext]_allVars

\* The program runs and deadlines pass; peers, disks and users need do nothing.
FanFair ==
  /\ FanSpec
  /\ WF_allVars(Spawn) /\ WF_allVars(Report) /\ WF_allVars(CloseAll)
  /\ \A c \in Callers : WF_allVars(Own(c)) /\ WF_allVars(command # "logs" /\ Timer(c))

-----------------------------------------------------------------------------
(* Properties.                                                             *)

FanTypeOK ==
  /\ TypeOK
  /\ command \in Commands /\ targets \subseteq Callers /\ begun \subseteq targets
  /\ file \in [Callers -> {"absent", "earlier", "partial", "whole"}]
  /\ spoiled \subseteq Callers
  /\ result \in [Callers -> {"none", "ok", "ssh", "create", "pipe", "write", "check"}]
  /\ exit \in {"none", "ok", "error", "partial"}

\* A backup that is reported as done is there, closed and written to the end, and one that exits with
\* 0 has one of every host it was asked for: whatever the stream, the disk, the
\* deadlines and the other hosts do (runBackup, backupHost).  And "a failure leaves
\* no partial file behind" (backup.go:238): when a host is over, its path holds a
\* whole tarball, nothing, or what it held before, or else its row says that
\* closing the file failed.
FilesAsReported ==
  /\ \A c \in Callers : pc[c] \in Over /\ file[c] = "partial" => result[c] = "write"
  /\ command = "backup" =>
       /\ \A c \in Callers : result[c] = "ok" => file[c] = "whole" /\ c \notin spoiled
       /\ exit = "ok" => \A c \in targets : file[c] = "whole"

\* "No partial file" without the allowance.  The code does not keep it: after an error of
\* Close the file is left where it is (backup.go:278).
NoPartialLeft ==
  \A c \in Callers : pc[c] \in Over => file[c] # "partial"

\* The peer owes c an answer that no context covers.
Awaits(c) ==
  \/ pc[c] \in {"handshake", "start"}
  \/ pc[c] = "session" /\ Ready(c) /\ commands[c] < MaxCommands

\* The deadline of a host's context brings it back, whatever it does with SIGTERM
\* and however it stalls, unless it waits for the peer to complete a handshake
\* or to accept a session or a command (executor.go:107, 246, 363).
HangsOnlyOnPeer ==
  \A c \in Deadline : c \in expired ~> pc[c] \in Over \/ Awaits(c)

\* A backup or a check comes to its end when the peers answer those: one host that
\* never ends its command, or cannot be reached, does not keep the others from
\* getting their turn (the token goes back on every return).
FanOutEnds ==
  (\A c \in Callers : WF_allVars(ByPeer(c))) =>
    (command \in {"backup", "test"} ~> exit # "none")
=============================================================================
