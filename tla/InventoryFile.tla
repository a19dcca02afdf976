---------------------------- MODULE InventoryFile ----------------------------
(***************************************************************************)
(* homelab-nut.yaml and the programs that rewrite it: the flows behind the *)
(* keys of the terminal interface (internal/tui/model.go, internal/cli:    *)
(* root.go, init.go, host_edit.go, detect.go), and the way they load, check*)
(* and save the file (internal/inventory: load.go, validate.go, save.go).  *)
(*                                                                         *)
(* Several programs may run, an editor may leave anything, and a program   *)
(* may be killed at any step.  Hosts and the wizard are module HostForm.   *)
(***************************************************************************)
EXTENDS HostForm, Sequences

CONSTANTS
  Procs,        \* running programs
  TempNames,    \* names of temporary files
  NoFile,       \* no file there
  Partial,      \* a file written in part
  FormAnswers,  \* what is answered in the wizard
  Drafts,       \* what an editor may leave
  MaxHosts,     \* bound: hosts of an inventory
  MaxDrafts,    \* bound: uses of an editor
  MaxCrashes    \* bound: programs killed

Inventories == [hosts : Seq(Hosts), block : Blocks \cup {None}]

ASSUME ContentAssumption ==
  /\ NoFile # Partial /\ {NoFile, Partial} \cap (Inventories \cup TempNames) = {}
  /\ FormAnswers \subseteq Answers
  /\ Drafts \subseteq Inventories
ASSUME BoundAssumption == {MaxHosts, MaxDrafts, MaxCrashes} \subseteq Nat

VARIABLES
  file,     \* the inventory file
  temps,    \* the temporary files
  pc,       \* where each program is
  shown,    \* the inventory it shows, or NoFile when it could not load one
  act,      \* the key it is at
  idx,      \* the host selected then
  name,     \* the name of that host, then of the one to look up
  mem,      \* the inventory in memory
  tmp,      \* its temporary file
  drafts, crashes   \* how often so far

progVars == <<shown, act, idx, name, mem, tmp>>
counts == <<drafts, crashes>>
vars == <<file, temps, pc, progVars, counts>>

-----------------------------------------------------------------------------
\* Load and Validate.

Names(i) == {i.hosts[k].name : k \in DOMAIN i.hosts}
HasRole(i, r) == \E k \in DOMAIN i.hosts : r \in i.hosts[k].roles

Valid(i) ==
  /\ i.hosts # <<>>
  /\ \A k, l \in DOMAIN i.hosts : i.hosts[k].name = i.hosts[l].name => k = l
  /\ \A k \in DOMAIN i.hosts : HostValid(i.hosts[k])
  /\ BlockValid(i.block)
  /\ i.block # None => HasRole(i, "shutdown-daemon")

\* The inventory of one host that goes into its backup.
HostInventory(i, k) ==
  [hosts |-> <<i.hosts[k]>>,
   block |-> IF "shutdown-daemon" \in i.hosts[k].roles THEN i.block ELSE None]

Loads(content) == content \notin {NoFile, Partial} /\ Valid(content)

Init ==
  /\ file \in {NoFile} \cup {d \in Drafts : Loads(d)}
  /\ temps = [n \in TempNames |-> NoFile]
  /\ pc = [p \in Procs |-> "off"]
  /\ shown = [p \in Procs |-> NoFile] /\ mem = [p \in Procs |-> NoFile]
  /\ act = [p \in Procs |-> "quit"] /\ idx = [p \in Procs |-> 1]
  /\ name = [p \in Procs |-> NoFile] /\ tmp = [p \in Procs |-> NoFile]
  /\ drafts = 0 /\ crashes = 0

\* Program p goes from one of its places to the next, or leaves.
From(p, place, next) == pc[p] = place /\ pc' = [pc EXCEPT ![p] = next]
Leave(p) ==
  /\ pc' = [pc EXCEPT ![p] = "off"]
  /\ shown' = [shown EXCEPT ![p] = NoFile] /\ mem' = [mem EXCEPT ![p] = NoFile]
  /\ act' = [act EXCEPT ![p] = "quit"] /\ idx' = [idx EXCEPT ![p] = 1]
  /\ name' = [name EXCEPT ![p] = NoFile] /\ tmp' = [tmp EXCEPT ![p] = NoFile]

-----------------------------------------------------------------------------
\* The terminal interface.

Launch(p) ==
  /\ From(p, "off", "tui")
  /\ shown' = [shown EXCEPT ![p] = IF Loads(file) THEN file ELSE NoFile]
  /\ UNCHANGED <<file, temps, act, idx, name, mem, tmp, counts>>

\* The keys that end the interface with something to do for host h.
Keys(h) ==
  {"add", "edit", "delete", "apply"} \cup (IF "nut-server" \in h.roles THEN {"scan"} ELSE {})

Press(p) ==
  /\ From(p, "tui", "chosen")
  /\ \/ /\ shown[p] = NoFile
        /\ act' = [act EXCEPT ![p] = "init"] /\ UNCHANGED <<idx, name>>
     \/ /\ shown[p] # NoFile
        /\ \E k \in DOMAIN shown[p].hosts : \E a \in Keys(shown[p].hosts[k]) :
             /\ act' = [act EXCEPT ![p] = a] /\ idx' = [idx EXCEPT ![p] = k]
             /\ name' = [name EXCEPT ![p] = shown[p].hosts[k].name]
  /\ shown' = [shown EXCEPT ![p] = NoFile]
  /\ UNCHANGED <<file, temps, mem, tmp, counts>>

\* Quit, a form that is left, an error, or an apply, which only reads the file.
GiveUp(p, place) ==
  /\ pc[p] = place /\ Leave(p)
  /\ UNCHANGED <<file, temps, counts>>

-----------------------------------------------------------------------------
\* The flows.  Each loads the file again; the ones that go by name do so twice.

InRange(p) == Loads(file) /\ idx[p] \in DOMAIN file.hosts

OpenForm(p) ==
  /\ From(p, "chosen", "form")
  /\ \/ act[p] = "init"
     \/ act[p] = "add" /\ Loads(file)
     \/ act[p] = "edit" /\ InRange(p)
     \/ act[p] = "delete" /\ InRange(p) /\ Len(file.hosts) > 1
  /\ mem' = [mem EXCEPT ![p] = IF act[p] = "init" THEN NoFile ELSE file]
  /\ UNCHANGED <<file, temps, shown, act, idx, name, tmp, counts>>

OpenName(p) ==
  /\ From(p, "chosen", "named")
  /\ act[p] \in {"scan", "apply"} /\ InRange(p)
  /\ name' = [name EXCEPT ![p] = file.hosts[idx[p]].name]
  /\ UNCHANGED <<file, temps, shown, act, idx, mem, tmp, counts>>

OpenFails(p) ==
  /\ \/ act[p] = "add" /\ ~Loads(file)
     \/ act[p] \in {"edit", "delete", "scan", "apply"} /\ ~InRange(p)
     \/ act[p] = "delete" /\ Loads(file) /\ Len(file.hosts) = 1
  /\ GiveUp(p, "chosen")

\* What the user may have confirmed at the end of the form.
Without(s, k) == SubSeq(s, 1, k - 1) \o SubSeq(s, k + 1, Len(s))

InitHosts(s) ==
  [hosts |-> [k \in DOMAIN s |-> CollectRoleDetails(NewHost, s[k], None)], block |-> None]

Answer(p) ==
  /\ From(p, "form", "save")
  /\ \/ /\ act[p] = "init"
        /\ \E s \in UNION {[1 .. n -> FormAnswers] : n \in 1 .. MaxHosts} :
             mem' = [mem EXCEPT ![p] = InitHosts(s)]
        /\ name' = [name EXCEPT ![p] = NoFile]
     \/ /\ act[p] = "add" /\ Len(mem[p].hosts) < MaxHosts
        /\ \E a \in FormAnswers :
             /\ mem' = [mem EXCEPT ![p].hosts =
                          Append(@, CollectRoleDetails(NewHost, a, mem[p].block))]
             /\ name' = [name EXCEPT ![p] = a.name]
     \/ /\ act[p] = "edit"
        /\ \E a \in FormAnswers \cup {Untouched(mem[p].hosts[idx[p]])} :
             /\ mem' = [mem EXCEPT ![p].hosts[idx[p]] = CollectRoleDetails(@, a, mem[p].block)]
             /\ name' = [name EXCEPT ![p] = a.name]
     \/ /\ act[p] = "delete"
        /\ mem' = [mem EXCEPT ![p].hosts = Without(@, idx[p])]
        /\ name' = [name EXCEPT ![p] = NoFile]
  /\ idx' = [idx EXCEPT ![p] = 1]
  /\ UNCHANGED <<file, temps, shown, act, tmp, counts>>

\* Mutant: the index is taken over.
LookupByIndex(p) ==
  /\ From(p, "named", "scan")
  /\ act[p] = "scan" /\ Loads(file)
  /\ mem' = [mem EXCEPT ![p] = file]
  /\ UNCHANGED <<file, temps, shown, act, idx, name, tmp, counts>>

\* The file is loaded again and the host looked up by name.
Lookup(p) ==
  /\ From(p, "named", "scan")
  /\ act[p] = "scan" /\ Loads(file)
  /\ \E k \in DOMAIN file.hosts :
       /\ file.hosts[k].name = name[p] /\ "nut-server" \in file.hosts[k].roles
       /\ idx' = [idx EXCEPT ![p] = k]
  /\ mem' = [mem EXCEPT ![p] = file]
  /\ UNCHANGED <<file, temps, shown, act, name, tmp, counts>>

\* One UPS found, with another driver than the file has.
Scan(p) ==
  /\ From(p, "scan", "save")
  /\ \E d \in Drivers \ {mem[p].hosts[idx[p]].ups} :
       mem' = [mem EXCEPT ![p].hosts[idx[p]].ups = d]
  /\ UNCHANGED <<file, temps, shown, act, idx, name, tmp, counts>>

-----------------------------------------------------------------------------
\* Save.

Writing == {"temp", "full"}

\* Mutant: no check.
CreateUnchecked(p) ==
  /\ From(p, "save", "temp")
  /\ \E n \in TempNames :
       /\ temps[n] = NoFile
       /\ temps' = [temps EXCEPT ![n] = Partial] /\ tmp' = [tmp EXCEPT ![p] = n]
  /\ UNCHANGED <<file, shown, act, idx, name, mem, counts>>

Create(p) ==
  /\ From(p, "save", "temp")
  /\ Loads(mem[p])
  /\ \E n \in TempNames :
       /\ temps[n] = NoFile
       /\ temps' = [temps EXCEPT ![n] = Partial] /\ tmp' = [tmp EXCEPT ![p] = n]
  /\ UNCHANGED <<file, shown, act, idx, name, mem, counts>>

Write(p) ==
  /\ From(p, "temp", "full")
  /\ temps' = [temps EXCEPT ![tmp[p]] = mem[p]]
  /\ UNCHANGED <<file, progVars, counts>>

\* Mutant: the temporary file stays.
WriteFailsLeaving(p) == GiveUp(p, "temp")

\* A full disk, or no leave to rename: the deferred remove.
WriteFails(p) ==
  /\ pc[p] \in Writing /\ Leave(p)
  /\ temps' = [temps EXCEPT ![tmp[p]] = NoFile]
  /\ UNCHANGED <<file, counts>>

Rename(p) ==
  /\ file' = temps[tmp[p]]
  /\ temps' = [temps EXCEPT ![tmp[p]] = NoFile]
  /\ UNCHANGED counts

\* A host that was added or edited is applied, by name.
Save(p) ==
  \/ /\ act[p] \in {"add", "edit"} /\ From(p, "full", "named") /\ Rename(p)
     /\ act' = [act EXCEPT ![p] = "apply"]
     /\ UNCHANGED <<shown, idx, name, mem, tmp>>
  \/ /\ act[p] \notin {"add", "edit"} /\ pc[p] = "full" /\ Leave(p) /\ Rename(p)

-----------------------------------------------------------------------------
\* What happens besides.

Kill(p) ==
  /\ pc[p] # "off" /\ Leave(p)
  /\ crashes < MaxCrashes /\ crashes' = crashes + 1
  /\ UNCHANGED <<file, temps, drafts>>

EditByHand ==
  /\ drafts < MaxDrafts /\ drafts' = drafts + 1
  /\ file' \in Drafts
  /\ UNCHANGED <<temps, pc, progVars, crashes>>

Step(p) ==
  \/ Launch(p) \/ Press(p) \/ OpenForm(p) \/ OpenName(p) \/ OpenFails(p)
  \/ Answer(p) \/ Lookup(p) \/ Scan(p)
  \/ (\E place \in {"tui", "form", "named", "scan", "save"} : GiveUp(p, place))
  \/ Create(p) \/ Write(p) \/ WriteFails(p) \/ Save(p)
  \/ Kill(p)

Next == (\E p \in Procs : Step(p)) \/ EditByHand

Spec == Init /\ [][Next]_vars

-----------------------------------------------------------------------------
\* Properties.

Places == {"off", "tui", "chosen", "form", "named", "scan", "save", "temp", "full"}

\* Does a host fail the check only for a word with white space or a number?
BlocksFit(h) ==
  /\ h.roles # {}
  /\ "nut-server" \in h.roles => h.ups # None
  /\ h.daemon # None => "shutdown-daemon" \in h.roles

\* Types; the host a form or a scan is about is in the inventory in memory, which
\* may not be the one the user saw (runEditHost, runDetect); and an inventory that
\* is about to be saved has its blocks where its roles are (collectRoleDetails).
TypeOK ==
  /\ file \in Inventories \cup {NoFile}
  /\ temps \in [TempNames -> Inventories \cup {NoFile, Partial}]
  /\ pc \in [Procs -> Places]
  /\ mem \in [Procs -> Inventories \cup {NoFile}]
  /\ tmp \in [Procs -> TempNames \cup {NoFile}]
  /\ drafts \in 0 .. MaxDrafts /\ crashes \in 0 .. MaxCrashes
  /\ \A p \in Procs :
       pc[p] = "scan" \/ (pc[p] = "form" /\ act[p] \in {"edit", "delete"}) =>
         idx[p] \in DOMAIN mem[p].hosts
  /\ \A p \in Procs : pc[p] = "save" =>
       \A k \in DOMAIN mem[p].hosts : BlocksFit(mem[p].hosts[k])

\* Whatever the other programs and the editor do, and wherever a program is
\* killed, a program replaces the file only by a whole and valid inventory: the
\* hosts are never gone, doubled, or without the daemon the file configures.
SavesLoad == [][file' # file /\ drafts' = drafts => Loads(file')]_vars

\* Unless a program was killed, a temporary file belongs to a save under way:
\* the deferred remove of Save.
NoLitter ==
  crashes = 0 =>
    \A n \in TempNames : temps[n] # NoFile =>
      \E p \in Procs : pc[p] \in Writing /\ tmp[p] = n

\* "Scan the selected host for its UPS", "Apply just the selected host"
\* (model.go:214, 226): the host a flow looks up by name is the one the user had
\* selected.  The code does not keep it: the selection is an index, taken into
\* the file as it is when the flow loads it.
ActsOnSelected ==
  [][\A p \in Procs : pc[p] = "chosen" /\ pc'[p] = "named" => name'[p] = name[p]]_vars
=============================================================================
