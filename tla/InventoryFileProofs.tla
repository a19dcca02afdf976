------------------------- MODULE InventoryFileProofs -------------------------
(***************************************************************************)
(* HostForm: what the wizard makes of a host.  InventoryFile: the types,   *)
(* what a program saves, and what it leaves behind, for any number of      *)
(* programs, any hosts and any drafts.                                     *)
(***************************************************************************)
EXTENDS InventoryFile, SequenceTheorems, TLAPS

\* A save under way has checked its inventory, and its temporary file holds that
\* inventory once written.
Owned ==
  \A p \in Procs : pc[p] \in Writing =>
    /\ tmp[p] \in TempNames /\ Loads(mem[p])
    /\ temps[tmp[p]] = IF pc[p] = "full" THEN mem[p] ELSE Partial

\* No two of them share a temporary file.
Apart ==
  \A p, q \in Procs :
    pc[p] \in Writing /\ pc[q] \in Writing /\ tmp[p] = tmp[q] => p = q

Shape ==
  /\ pc \in [Procs -> Places]
  /\ temps = [n \in TempNames |-> temps[n]]
  /\ mem = [p \in Procs |-> mem[p]] /\ tmp = [p \in Procs |-> tmp[p]]
  /\ crashes \in Nat /\ drafts \in Nat

IInv == Shape /\ Owned /\ Apart /\ NoLitter

LEMMA NotNone == \A i : Loads(i) => i # NoFile
BY DEF Loads

LEMMA PartialIsNotNone == Partial # NoFile
BY ContentAssumption

LEMMA InitIInv == Init => IInv
BY DEF Init, IInv, Shape, Owned, Apart, NoLitter, Writing, Places

\* A step of p outside a save, which leaves the temporary files alone.
LEMMA Outside ==
  ASSUME IInv, NEW p \in Procs, pc[p] \notin Writing,
         NEW place \in Places \ Writing, pc' = [pc EXCEPT ![p] = place],
         mem' = [q \in Procs |-> mem'[q]], tmp' = [q \in Procs |-> tmp'[q]],
         \A q \in Procs \ {p} : mem'[q] = mem[q] /\ tmp'[q] = tmp[q],
         UNCHANGED <<temps, counts>>
  PROVE  IInv'
<1> USE DEF IInv, Shape, counts
<1>1. \A q \in Procs : pc'[q] \in Writing => q # p /\ pc'[q] = pc[q]
  OBVIOUS
<1>2. Shape'
  OBVIOUS
<1>3. Owned'
  BY <1>1 DEF Owned
<1>4. Apart'
  BY <1>1 DEF Apart
<1>5. NoLitter'
  BY DEF NoLitter
<1> QED BY <1>2, <1>3, <1>4, <1>5

\* A step that ends the save of p and empties its temporary file.
LEMMA Ending ==
  ASSUME IInv, NEW p \in Procs, pc[p] \in Writing,
         NEW place \in Places \ Writing, pc' = [pc EXCEPT ![p] = place],
         mem' = [q \in Procs |-> mem'[q]], tmp' = [q \in Procs |-> tmp'[q]],
         \A q \in Procs \ {p} : mem'[q] = mem[q] /\ tmp'[q] = tmp[q],
         temps' = [temps EXCEPT ![tmp[p]] = NoFile], UNCHANGED counts
  PROVE  IInv'
<1> USE DEF IInv, Shape, counts
<1>1. \A q \in Procs : pc'[q] \in Writing => q # p /\ pc'[q] = pc[q]
  OBVIOUS
<1>2. Shape'
  OBVIOUS
<1>3. Owned'
  BY <1>1 DEF Owned, Apart
<1>4. Apart'
  BY <1>1 DEF Apart
<1>5. NoLitter'
  BY DEF NoLitter, Owned
<1> QED BY <1>2, <1>3, <1>4, <1>5

LEMMA CreateStep == ASSUME IInv, NEW p \in Procs, Create(p) PROVE IInv'
<1> USE DEF IInv, Shape, Create, From, counts
<1>1. PICK n \in TempNames :
        /\ temps[n] = NoFile
        /\ temps' = [temps EXCEPT ![n] = Partial] /\ tmp' = [tmp EXCEPT ![p] = n]
  OBVIOUS
<1>2. \A q \in Procs \ {p} : pc'[q] = pc[q] /\ mem'[q] = mem[q] /\ tmp'[q] = tmp[q]
  BY <1>1
<1>3. pc'[p] = "temp" /\ tmp'[p] = n /\ Loads(mem'[p]) /\ temps'[n] = Partial
  BY <1>1 DEF Places
<1>4. \A q \in Procs : pc[q] \in Writing => tmp[q] # n
  BY <1>1, NotNone, PartialIsNotNone DEF Owned
<1>5. Shape'
  BY <1>1 DEF Places
<1>6. Owned'
  BY <1>1, <1>2, <1>3, <1>4 DEF Owned
<1>7. Apart'
  BY <1>2, <1>3, <1>4 DEF Apart
<1>8. NoLitter'
  BY <1>1, <1>2, <1>3 DEF NoLitter, Writing
<1> QED BY <1>5, <1>6, <1>7, <1>8

LEMMA WriteStep == ASSUME IInv, NEW p \in Procs, Write(p) PROVE IInv'
<1> USE DEF IInv, Shape, Write, From, counts, progVars, Writing
<1>1. Shape'
  BY DEF Places
<1>2. Owned'
  BY DEF Owned, Apart
<1>3. Apart'
  BY DEF Apart
<1>4. NoLitter'
  BY DEF NoLitter
<1> QED BY <1>1, <1>2, <1>3, <1>4

LEMMA KillStep == ASSUME IInv, NEW p \in Procs, Kill(p) PROVE IInv'
<1> USE DEF IInv, Shape, Kill, Leave
<1>1. \A q \in Procs : pc'[q] \in Writing => q # p /\ pc'[q] = pc[q]
  BY DEF Writing
<1>2. Shape'
  <2>1. crashes' \in Nat /\ drafts' \in Nat
    OBVIOUS
  <2>2. pc' \in [Procs -> Places] /\ UNCHANGED temps
    BY DEF Places
  <2>3. mem' = [q \in Procs |-> mem'[q]] /\ tmp' = [q \in Procs |-> tmp'[q]]
    OBVIOUS
  <2> QED BY <2>1, <2>2, <2>3
<1>3. Owned'
  BY <1>1 DEF Owned
<1>4. Apart'
  BY <1>1 DEF Apart
<1>5. NoLitter'
  BY DEF NoLitter
<1> QED BY <1>2, <1>3, <1>4, <1>5

LEMMA ProgramStep == ASSUME IInv, NEW p \in Procs, Step(p) PROVE IInv'
<1> USE DEF IInv, Shape, counts
<1>1. CASE Launch(p)
  BY <1>1, Outside DEF Launch, From, Writing, Places
<1>2. CASE Press(p)
  BY <1>2, Outside DEF Press, From, Writing, Places
<1>3. CASE OpenForm(p)
  BY <1>3, Outside DEF OpenForm, From, Writing, Places
<1>4. CASE OpenName(p)
  BY <1>4, Outside DEF OpenName, From, Writing, Places
<1>5. CASE OpenFails(p)
  BY <1>5, Outside DEF OpenFails, GiveUp, Leave, Writing, Places
<1>6. CASE Answer(p)
  BY <1>6, Outside DEF Answer, From, Writing, Places
<1>7. CASE Lookup(p)
  BY <1>7, Outside DEF Lookup, From, Writing, Places
<1>8. CASE Scan(p)
  BY <1>8, Outside DEF Scan, From, Writing, Places
<1>9. ASSUME NEW place \in {"tui", "form", "named", "scan", "save"}, GiveUp(p, place)
      PROVE  IInv'
  BY <1>9, Outside DEF GiveUp, Leave, Writing, Places
<1>10. CASE Create(p)
  BY <1>10, CreateStep
<1>11. CASE Write(p)
  BY <1>11, WriteStep
<1>12. CASE WriteFails(p)
  BY <1>12, Ending DEF WriteFails, Leave, Writing, Places
<1>13. CASE Save(p)
  <2>1. CASE act[p] \in {"add", "edit"} /\ From(p, "full", "named")
    BY <1>13, <2>1, Ending DEF Save, Rename, From, Leave, Writing, Places
  <2>2. CASE act[p] \notin {"add", "edit"} /\ Leave(p)
    BY <1>13, <2>2, Ending DEF Save, Rename, Leave, Writing, Places
  <2> QED BY <1>13, <2>1, <2>2 DEF Save
<1>14. CASE Kill(p)
  BY <1>14, KillStep
<1> QED
  BY <1>1, <1>2, <1>3, <1>4, <1>5, <1>6, <1>7, <1>8, <1>9, <1>10, <1>11, <1>12,
     <1>13, <1>14 DEF Step

LEMMA NextIInv == IInv /\ [Next]_vars => IInv'
<1> SUFFICES ASSUME IInv, [Next]_vars PROVE IInv'
  OBVIOUS
<1>1. ASSUME NEW p \in Procs, Step(p) PROVE IInv'
  BY <1>1, ProgramStep
<1>2. CASE EditByHand \/ UNCHANGED vars
  BY <1>2 DEF EditByHand, vars, progVars, counts, IInv, Shape, Owned, Apart, NoLitter
<1> QED BY <1>1, <1>2 DEF Next

LEMMA Invariance == Spec => []IInv
BY InitIInv, NextIInv, PTL DEF Spec

\* Unless a program was killed, a temporary file belongs to a save under way
\* (Save: the deferred remove).
THEOREM NothingLeft == Spec => []NoLitter
<1>1. IInv => NoLitter BY DEF IInv
<1> QED BY <1>1, Invariance, PTL

\* Every change a program makes to the file replaces it by a whole and valid
\* inventory (Save: Validate, os.CreateTemp, os.Rename).
THEOREM WholeSaves == Spec => SavesLoad
<1>1. IInv /\ [Next]_vars => [file' # file /\ drafts' = drafts => Loads(file')]_vars
  <2> SUFFICES ASSUME IInv, Next, file' # file, drafts' = drafts PROVE Loads(file')
    BY DEF vars
  <2>1. ASSUME NEW p \in Procs, Save(p) PROVE Loads(file')
    <3>1. pc[p] = "full" /\ file' = temps[tmp[p]]
      BY <2>1 DEF Save, From, Rename
    <3> QED BY <3>1 DEF IInv, Owned, Writing
  <2>2. ASSUME NEW p \in Procs, Step(p), ~Save(p) PROVE file' = file
    BY <2>2 DEF Step, Launch, Press, OpenForm, OpenName, OpenFails, GiveUp, Answer,
                Lookup, Scan, Create, Write, WriteFails, Kill
  <2>3. CASE EditByHand
    BY <2>3 DEF EditByHand, IInv, Shape
  <2> QED BY <2>1, <2>2, <2>3 DEF Next
<1> QED BY <1>1, Invariance, PTL DEF Spec, SavesLoad

-----------------------------------------------------------------------------
(* The wizard.                                                             *)

MaybeHosts == Hosts \cup {NewHost}
MaybeBlocks == Blocks \cup {None}

LEMMA EffectiveType ==
  ASSUME NEW h \in MaybeHosts, NEW fleet \in MaybeBlocks
  PROVE  EffectiveShutdownDaemon(h, fleet) \in Blocks
BY FormAssumption
   DEF MaybeHosts, MaybeBlocks, Hosts, NewHost, EffectiveShutdownDaemon, DefaultBlock, Blocks

LEMMA ShutdownType ==
  ASSUME NEW h \in MaybeHosts
  PROVE  ShutdownOf(h) \in Shutdowns
BY FormAssumption
   DEF MaybeHosts, Hosts, NewHost, ShutdownOf, DefaultShutdown, Shutdowns

\* The wizard yields a host, with the blocks that its roles need and no others.
LEMMA CollectType ==
  ASSUME NEW h \in MaybeHosts, NEW a \in Answers, NEW fleet \in MaybeBlocks
  PROVE  /\ CollectRoleDetails(h, a, fleet) \in Hosts
         /\ BlocksFit(CollectRoleDetails(h, a, fleet))
<1> DEFINE c == CollectRoleDetails(h, a, fleet)
<1>1. UPSOf(h, a) \in Drivers
  BY FormAssumption DEF MaybeHosts, Hosts, NewHost, Answers, UPSOf, Field
<1>2. ShutdownFrom(h, a) \in Shutdowns
  <2>1. /\ ShutdownOf(h).command \in Commands /\ ShutdownOf(h).delay \in Nat
        /\ ShutdownOf(h).threshold \in 0 .. 99
    BY ShutdownType DEF Shutdowns
  <2> QED BY <2>1 DEF Answers, ShutdownFrom, Field, Shutdowns
<1>3. DaemonFrom(h, a, fleet) \in Blocks
  <2>1. /\ EffectiveShutdownDaemon(h, fleet).threshold \in Int
        /\ EffectiveShutdownDaemon(h, fleet).poll \in Int
        /\ EffectiveShutdownDaemon(h, fleet).webhook \in Webhooks
    BY EffectiveType DEF Blocks
  <2> QED BY <2>1 DEF Answers, DaemonFrom, Field, Blocks
<1>4. /\ a.name \in HostNames /\ a.address \in Addresses
      /\ a.roles \in SUBSET Roles /\ a.roles # {}
  BY DEF Answers
<1>5. c \in Hosts
  BY <1>1, <1>2, <1>3, <1>4 DEF CollectRoleDetails, Hosts
<1>6. None \notin Drivers
  BY FormAssumption
<1>7. BlocksFit(c)
  BY <1>1, <1>4, <1>6 DEF CollectRoleDetails, BlocksFit
<1> QED BY <1>5, <1>7

LEMMA UntouchedType ==
  ASSUME NEW h \in Hosts, BlocksFit(h)
  PROVE  Untouched(h) \in Answers
BY DEF Hosts, BlocksFit, Untouched, Answers

\* Who edits a host and changes nothing has changed nothing: each of its roles
\* works with the settings it had, though a daemon's may have been the fleet's and
\* are its own now (EditHost, collectRoleDetails).
THEOREM UntouchedEditKeeps ==
  ASSUME NEW h \in Hosts, HostValid(h), NEW fleet \in MaybeBlocks
  PROVE  Works(CollectRoleDetails(h, Untouched(h), fleet), fleet) = Works(h, fleet)
<1> DEFINE a == Untouched(h)
           c == CollectRoleDetails(h, a, fleet)
<1>1. /\ c.name = h.name /\ c.address = h.address /\ c.roles = h.roles
  BY DEF CollectRoleDetails, Untouched
<1>2. "nut-server" \in h.roles => c.ups = h.ups
  BY DEF CollectRoleDetails, Untouched, UPSOf, Field, HostValid
<1>3. "shutdown-target" \in h.roles => ShutdownOf(c) = ShutdownOf(h)
  <2>1. ShutdownOf(h) \in Shutdowns
    BY ShutdownType DEF MaybeHosts
  <2>2. ShutdownFrom(h, a) = ShutdownOf(h)
    BY <2>1 DEF ShutdownFrom, Field, Untouched, Shutdowns
  <2>3. ShutdownOf(h) # None
    BY <2>1, FormAssumption
  <2> QED BY <2>2, <2>3 DEF CollectRoleDetails, ShutdownOf, Untouched
<1>4. "shutdown-daemon" \in h.roles =>
        EffectiveShutdownDaemon(c, fleet) = EffectiveShutdownDaemon(h, fleet)
  <2>1. EffectiveShutdownDaemon(h, fleet) \in Blocks
    BY EffectiveType DEF MaybeHosts
  <2>2. DaemonFrom(h, a, fleet) = EffectiveShutdownDaemon(h, fleet)
    BY <2>1 DEF DaemonFrom, Field, Untouched, Blocks
  <2>3. EffectiveShutdownDaemon(h, fleet) # None
    BY <2>1, FormAssumption
  <2>4. "shutdown-daemon" \in h.roles => c.daemon = EffectiveShutdownDaemon(h, fleet)
    BY <2>2 DEF CollectRoleDetails, Untouched
  <2> QED BY <2>3, <2>4 DEF EffectiveShutdownDaemon
<1>5. Works(c, fleet) = Works(h, fleet)
  <2> HIDE DEF c
  <2> QED BY <1>1, <1>2, <1>3, <1>4 DEF Works
<1> QED BY <1>5

\* Which answers of the wizard Save accepts, for a host and a fleet that it
\* accepted before: those without white space in a name, an address, a webhook that
\* is typed, or around a number, and no others, whatever was cleared and whichever
\* roles are chosen ("fall back to the default rather than failing the save",
\* forms.go:211).
THEOREM FormsAreAccepted ==
  ASSUME NEW h \in MaybeHosts, BlockValid(h.daemon),
         NEW fleet \in MaybeBlocks, BlockValid(fleet),
         NEW a \in Answers
  PROVE  HostValid(CollectRoleDetails(h, a, fleet)) <=>
           /\ a.name \notin Spaced /\ a.address \notin Spaced
           /\ "shutdown-daemon" \in a.roles =>
                a.threshold # 0 /\ a.poll # 0 /\ a.webhook \notin Spaced
<1> DEFINE c == CollectRoleDetails(h, a, fleet)
           b == DaemonFrom(h, a, fleet)
           clean == a.threshold # 0 /\ a.poll # 0 /\ a.webhook \notin Spaced
<1>1. BlocksFit(c) /\ c.name = a.name /\ c.address = a.address
  <2>1. BlocksFit(c)
    BY CollectType
  <2> QED BY <2>1 DEF CollectRoleDetails
<1>2. BlockValid(b) <=> clean
  <2> DEFINE filled == EffectiveShutdownDaemon(h, fleet)
  <2>1. filled.threshold \in 1 .. 99 /\ filled.poll > 0 /\ filled.webhook \notin Spaced
    BY FormAssumption DEF EffectiveShutdownDaemon, BlockValid, DefaultBlock
  <2>2. filled.poll \in Int
    BY EffectiveType DEF Blocks
  <2>3. /\ b.threshold = Field(a.threshold, filled.threshold)
        /\ b.poll = Field(a.poll, filled.poll)
        /\ b.webhook = Field(a.webhook, filled.webhook)
    BY DEF DaemonFrom
  <2>4. b # None
    <3>1. b \in Blocks
      <4>1. filled.threshold \in Int /\ filled.webhook \in Webhooks
        BY EffectiveType DEF Blocks
      <4> QED BY <2>2, <4>1 DEF DaemonFrom, Answers, Field, Blocks
    <3> QED BY <3>1, FormAssumption
  <2>5. Keep # 0
    BY FormAssumption
  <2> HIDE DEF b, filled
  <2>6. b.threshold \in 1 .. 99 <=> a.threshold # 0
    BY <2>1, <2>3, <2>5 DEF Answers, Field
  <2>7. b.poll > 0 <=> a.poll # 0
    BY <2>1, <2>2, <2>3, <2>5 DEF Answers, Field
  <2>8. b.webhook \notin Spaced <=> a.webhook \notin Spaced
    <3>1. Keep \notin Spaced
      BY FormAssumption DEF Words
    <3> QED BY <2>1, <2>3, <3>1 DEF Field
  <2> QED BY <2>4, <2>6, <2>7, <2>8 DEF BlockValid
<1>3. c.daemon = IF "shutdown-daemon" \in a.roles THEN b ELSE None
  BY DEF CollectRoleDetails
<1>4. BlockValid(c.daemon) <=> ("shutdown-daemon" \in a.roles => clean)
  <2> HIDE DEF b, c, clean
  <2> QED BY <1>2, <1>3 DEF BlockValid
<1>5. HostValid(c) <=>
        a.name \notin Spaced /\ a.address \notin Spaced /\ BlockValid(c.daemon)
  <2> HIDE DEF c
  <2> QED BY <1>1 DEF HostValid, BlocksFit
<1> QED BY <1>4, <1>5

\* The inventory that goes into the backup of one host loads, if that of the fleet
\* does ("otherwise the single-host snapshot fails validation", backup.go:296).
THEOREM SnapshotsLoad ==
  ASSUME NEW i \in Inventories, Valid(i), NEW k \in DOMAIN i.hosts
  PROVE  Valid(HostInventory(i, k))
<1> DEFINE s == HostInventory(i, k)
<1>1. s.hosts = <<i.hosts[k]>> /\ DOMAIN s.hosts = {1} /\ s.hosts[1] = i.hosts[k]
  BY DEF HostInventory
<1>2. HostValid(i.hosts[k]) /\ BlockValid(i.block)
  BY DEF Valid
<1>3. BlockValid(s.block) /\ (s.block # None => "shutdown-daemon" \in i.hosts[k].roles)
  BY <1>2 DEF HostInventory, BlockValid
<1>4. s.hosts # <<>>
  BY <1>1
<1>5. Valid(s)
  <2> HIDE DEF s
  <2> QED BY <1>1, <1>2, <1>3, <1>4 DEF Valid, HasRole
<1> QED BY <1>5

-----------------------------------------------------------------------------
(* Types.                                                                  *)

\* What a program has in memory where it is.
Holds(p) ==
  /\ pc[p] = "form" => act[p] = "init" \/ Loads(mem[p])
  /\ pc[p] = "scan" => Loads(mem[p])
  /\ pc[p] = "scan" \/ (pc[p] = "form" /\ act[p] \in {"edit", "delete"}) =>
       idx[p] \in DOMAIN mem[p].hosts
  /\ pc[p] = "save" =>
       mem[p] \in Inventories /\ \A k \in DOMAIN mem[p].hosts : BlocksFit(mem[p].hosts[k])

Typed ==
  /\ file \in Inventories \cup {NoFile}
  /\ temps \in [TempNames -> Inventories \cup {NoFile, Partial}]
  /\ pc \in [Procs -> Places]
  /\ mem \in [Procs -> Inventories \cup {NoFile}]
  /\ tmp \in [Procs -> TempNames \cup {NoFile}]
  /\ act = [p \in Procs |-> act[p]] /\ idx = [p \in Procs |-> idx[p]]
  /\ drafts \in 0 .. MaxDrafts /\ crashes \in 0 .. MaxCrashes

TInv == Typed /\ \A p \in Procs : Holds(p)

LEMMA InitTInv == Init => TInv
<1> SUFFICES ASSUME Init PROVE TInv
  OBVIOUS
<1>1. Typed
  BY ContentAssumption, BoundAssumption DEF Init, Typed, Places
<1>2. ASSUME NEW p \in Procs PROVE Holds(p)
  BY DEF Init, Holds
<1> QED BY <1>1, <1>2 DEF TInv

LEMMA LoadedType ==
  ASSUME NEW i \in Inventories \cup {NoFile}, Loads(i)
  PROVE  /\ i \in Inventories /\ i.hosts \in Seq(Hosts) /\ i.block \in MaybeBlocks
         /\ DOMAIN i.hosts = 1 .. Len(i.hosts)
         /\ \A k \in DOMAIN i.hosts : i.hosts[k] \in Hosts /\ BlocksFit(i.hosts[k])
<1>1. i \in Inventories /\ Valid(i)
  BY DEF Loads
<1>2. i.hosts \in Seq(Hosts) /\ i.block \in MaybeBlocks
  BY <1>1 DEF Inventories, MaybeBlocks
<1>3. DOMAIN i.hosts = 1 .. Len(i.hosts)
  BY <1>2, LenProperties
<1>4. \A k \in DOMAIN i.hosts : i.hosts[k] \in Hosts
  BY <1>2, <1>3, ElementOfSeq
<1>5. \A k \in DOMAIN i.hosts : BlocksFit(i.hosts[k])
  BY <1>1 DEF Valid, HostValid, BlocksFit
<1> QED BY <1>1, <1>2, <1>3, <1>4, <1>5

LEMMA WithHosts ==
  ASSUME NEW i \in Inventories, NEW s \in Seq(Hosts)
  PROVE  [i EXCEPT !.hosts = s] \in Inventories /\ [i EXCEPT !.hosts = s].hosts = s
BY DEF Inventories

\* The part of a sequence behind one of its elements.
LEMMA BehindIsPart ==
  ASSUME NEW S, NEW s \in Seq(S), NEW i \in 1 .. Len(s)
  PROVE  /\ SubSeq(s, i + 1, Len(s)) \in Seq(S)
         /\ \A k \in 1 .. Len(SubSeq(s, i + 1, Len(s))) :
              /\ SubSeq(s, i + 1, Len(s))[k] = s[i + k]
              /\ i + k \in 1 .. Len(s)
<1> DEFINE m == i + 1
           n == Len(s)
           part == SubSeq(s, m, n)
<1>1. m \in Int /\ n \in Int /\ m <= n + 1 /\ i \in Int /\ i >= 1
  BY LenProperties
<1>2. \A j \in m .. n : s[j] \in S
  BY <1>1, ElementOfSeq
<1> HIDE DEF m, n
<1>3. /\ part \in Seq(S)
      /\ Len(part) = IF m <= n THEN n - m + 1 ELSE 0
      /\ \A j \in 1 .. n - m + 1 : part[j] = s[m + j - 1]
  BY <1>1, <1>2, SubSeqProperties
<1> HIDE DEF part
<1>4. \A k \in 1 .. Len(part) : part[k] = s[m - 1 + k] /\ m - 1 + k \in m .. n
  BY <1>1, <1>3
<1> QED BY <1>1, <1>3, <1>4 DEF m, n, part

\* What the wizard leaves in memory.
LEMMA AnswerMem ==
  ASSUME TInv, NEW p \in Procs, Answer(p)
  PROVE  /\ mem'[p] \in Inventories /\ mem' = [mem EXCEPT ![p] = mem'[p]]
         /\ \A k \in DOMAIN mem'[p].hosts : BlocksFit(mem'[p].hosts[k])
<1> DEFINE m == mem[p]
           done == /\ mem'[p] \in Inventories /\ mem' = [mem EXCEPT ![p] = mem'[p]]
                   /\ \A k \in DOMAIN mem'[p].hosts : BlocksFit(mem'[p].hosts[k])
<1>0. /\ pc[p] = "form" /\ mem \in [Procs -> Inventories \cup {NoFile}] /\ Holds(p)
  BY DEF Answer, From, TInv, Typed
<1>1. CASE act[p] = "init"
  <2>1. PICK n \in 1 .. MaxHosts : \E s \in [1 .. n -> FormAnswers] :
               mem' = [mem EXCEPT ![p] = InitHosts(s)]
    BY <1>1 DEF Answer
  <2>2. PICK s \in [1 .. n -> FormAnswers] : mem' = [mem EXCEPT ![p] = InitHosts(s)]
    BY <2>1
  <2>3. n \in Nat
    BY <2>1, BoundAssumption
  <2>4. \A k \in 1 .. n : /\ CollectRoleDetails(NewHost, s[k], None) \in Hosts
                         /\ BlocksFit(CollectRoleDetails(NewHost, s[k], None))
    <3>1. NewHost \in MaybeHosts /\ None \in MaybeBlocks
      BY DEF MaybeHosts, MaybeBlocks
    <3>2. \A k \in 1 .. n : s[k] \in Answers
      BY ContentAssumption
    <3> QED BY <3>1, <3>2, CollectType
  <2> DEFINE hs == [k \in 1 .. n |-> CollectRoleDetails(NewHost, s[k], None)]
  <2>5. InitHosts(s) = [hosts |-> hs, block |-> None]
    BY DEF InitHosts
  <2>6. hs \in [1 .. n -> Hosts]
    BY <2>4
  <2>7. hs \in Seq(Hosts)
    <3> HIDE DEF hs
    <3> QED BY <2>3, <2>6, SeqDef
  <2>8. [hosts |-> hs, block |-> None] \in Inventories
    BY <2>7 DEF Inventories
  <2>9. \A k \in DOMAIN hs : BlocksFit(hs[k])
    BY <2>4
  <2>10. mem'[p] = [hosts |-> hs, block |-> None]
    BY <2>2, <2>5, <1>0
  <2> HIDE DEF hs
  <2> QED BY <2>2, <2>8, <2>9, <2>10, <1>0
<1>2. CASE act[p] # "init"
  <2>1. Loads(m)
    BY <1>0, <1>2 DEF Holds
  <2>2. /\ m \in Inventories /\ m.hosts \in Seq(Hosts) /\ m.block \in MaybeBlocks
        /\ DOMAIN m.hosts = 1 .. Len(m.hosts)
        /\ \A k \in DOMAIN m.hosts : m.hosts[k] \in Hosts /\ BlocksFit(m.hosts[k])
    BY <1>0, <2>1, LoadedType
  <2>3. SUFFICES \E hs \in Seq(Hosts) :
          /\ mem' = [mem EXCEPT ![p].hosts = hs]
          /\ \A k \in 1 .. Len(hs) : BlocksFit(hs[k])
    <3>1. PICK hs \in Seq(Hosts) : /\ mem' = [mem EXCEPT ![p].hosts = hs]
                                   /\ \A k \in 1 .. Len(hs) : BlocksFit(hs[k])
      BY <2>3
    <3>2. mem'[p] = [m EXCEPT !.hosts = hs] /\ mem' = [mem EXCEPT ![p] = mem'[p]]
      BY <1>0, <3>1
    <3>3. DOMAIN hs = 1 .. Len(hs)
      BY LenProperties
    <3>4. mem'[p] \in Inventories /\ mem'[p].hosts = hs
      <4>1. [m EXCEPT !.hosts = hs] \in Inventories /\ [m EXCEPT !.hosts = hs].hosts = hs
        BY <2>2, WithHosts
      <4> QED BY <3>2, <4>1
    <3> QED BY <3>1, <3>2, <3>3, <3>4
  <2>4. CASE act[p] = "add"
    <3>1. PICK a \in FormAnswers :
            mem' = [mem EXCEPT ![p].hosts = Append(@, CollectRoleDetails(NewHost, a, mem[p].block))]
      BY <2>4 DEF Answer
    <3> DEFINE c == CollectRoleDetails(NewHost, a, m.block)
               hs == Append(m.hosts, c)
    <3>2. c \in Hosts /\ BlocksFit(c)
      <4>1. NewHost \in MaybeHosts /\ a \in Answers
        BY ContentAssumption DEF MaybeHosts
      <4> QED BY <2>2, <4>1, CollectType
    <3>3. mem' = [mem EXCEPT ![p].hosts = hs]
      BY <3>1
    <3> HIDE DEF c
    <3>4. hs \in Seq(Hosts) /\ \A k \in 1 .. Len(hs) : hs[k] = c \/ (k \in 1 .. Len(m.hosts) /\ hs[k] = m.hosts[k])
      BY <2>2, <3>2, AppendProperties, LenProperties
    <3> QED BY <2>2, <3>2, <3>3, <3>4
  <2>5. CASE act[p] = "edit"
    <3>1. PICK a \in FormAnswers \cup {Untouched(mem[p].hosts[idx[p]])} :
            mem' = [mem EXCEPT ![p].hosts[idx[p]] = CollectRoleDetails(@, a, mem[p].block)]
      BY <2>5 DEF Answer
    <3>2. idx[p] \in DOMAIN m.hosts
      BY <1>0, <2>5 DEF Holds
    <3> DEFINE c == CollectRoleDetails(m.hosts[idx[p]], a, m.block)
               hs == [m.hosts EXCEPT ![idx[p]] = c]
    <3>3. c \in Hosts /\ BlocksFit(c)
      <4>1. m.hosts[idx[p]] \in MaybeHosts /\ a \in Answers
        BY <2>2, <3>2, UntouchedType, ContentAssumption DEF MaybeHosts
      <4> QED BY <2>2, <4>1, CollectType
    <3>4. mem' = [mem EXCEPT ![p].hosts = hs]
      BY <3>1, <1>0
    <3> HIDE DEF c
    <3>5. hs \in Seq(Hosts) /\ Len(hs) = Len(m.hosts)
          /\ \A k \in 1 .. Len(hs) : hs[k] = IF k = idx[p] THEN c ELSE m.hosts[k]
      BY <2>2, <3>2, <3>3, ExceptSeq
    <3> QED BY <2>2, <3>3, <3>4, <3>5
  <2>6. CASE act[p] = "delete"
    <3>1. mem' = [mem EXCEPT ![p].hosts = Without(@, idx[p])]
      BY <2>6 DEF Answer
    <3>2. idx[p] \in 1 .. Len(m.hosts)
      BY <1>0, <2>2, <2>6 DEF Holds
    <3> DEFINE hs == Without(m.hosts, idx[p])
               left == SubSeq(m.hosts, 1, idx[p] - 1)
               right == SubSeq(m.hosts, idx[p] + 1, Len(m.hosts))
    <3>3. left \in Seq(Hosts) /\ \A k \in 1 .. Len(left) : BlocksFit(left[k])
      <4>1. left \in Seq(Hosts) /\ \A k \in 1 .. Len(left) : left[k] = m.hosts[k] /\ k \in 1 .. Len(m.hosts)
        BY <2>2, <3>2, SubSeqProperties
      <4> QED BY <4>1, <2>2
    <3>4. right \in Seq(Hosts) /\ \A k \in 1 .. Len(right) : BlocksFit(right[k])
      <4>1. right \in Seq(Hosts)
            /\ \A k \in 1 .. Len(right) : right[k] = m.hosts[idx[p] + k] /\ idx[p] + k \in 1 .. Len(m.hosts)
        BY <2>2, <3>2, BehindIsPart, Zenon
      <4> QED BY <4>1, <2>2
    <3>5. hs \in Seq(Hosts) /\ \A k \in 1 .. Len(hs) : BlocksFit(hs[k])
      <4> HIDE DEF left, right
      <4>1. /\ left \o right \in Seq(Hosts) /\ Len(left \o right) = Len(left) + Len(right)
            /\ \A k \in 1 .. Len(left) + Len(right) :
                 (left \o right)[k] = IF k <= Len(left) THEN left[k] ELSE right[k - Len(left)]
        BY <3>3, <3>4, ConcatProperties
      <4>2. Len(left) \in Nat /\ Len(right) \in Nat
        BY <3>3, <3>4, LenProperties
      <4>3. ASSUME NEW k \in 1 .. Len(left) + Len(right)
            PROVE  BlocksFit((left \o right)[k])
        BY <3>3, <3>4, <4>1, <4>2
      <4>4. hs = left \o right
        BY DEF Without, left, right
      <4> QED BY <4>1, <4>3, <4>4
    <3>6. mem' = [mem EXCEPT ![p].hosts = hs]
      BY <3>1
    <3> QED BY <3>5, <3>6
  <2> QED BY <1>2, <2>4, <2>5, <2>6 DEF Answer
<1> QED BY <1>1, <1>2

\* A step of p that leaves the file and its memory, or its place outside a flow.
LEMMA Moving ==
  ASSUME TInv, NEW p \in Procs, Typed', Holds(p)',
         \A q \in Procs \ {p} : /\ pc'[q] = pc[q] /\ mem'[q] = mem[q]
                               /\ act'[q] = act[q] /\ idx'[q] = idx[q]
  PROVE  TInv'
BY DEF TInv, Holds

LEMMA LocalTyped ==
  ASSUME TInv, NEW p \in Procs,
         \/ Launch(p) \/ Press(p) \/ OpenForm(p) \/ OpenName(p) \/ OpenFails(p) \/ Lookup(p)
         \/ \E place \in {"tui", "form", "named", "scan", "save"} : GiveUp(p, place)
  PROVE  TInv'
<1> USE DEF TInv, Typed, counts, From, Places
<1>1. CASE Launch(p)
  BY <1>1, Moving DEF Launch, Holds
<1>2. CASE Press(p)
  <2>1. /\ UNCHANGED <<file, temps, mem, tmp, counts>> /\ pc' = [pc EXCEPT ![p] = "chosen"]
        /\ act' = [act EXCEPT ![p] = act'[p]] /\ idx' = [idx EXCEPT ![p] = idx'[p]]
    BY <1>2 DEF Press
  <2> QED BY <2>1, Moving DEF Holds
<1>3. CASE OpenForm(p)
  <2>1. Holds(p)'
    BY <1>3, LoadedType DEF OpenForm, InRange, Holds
  <2> QED BY <1>3, <2>1, Moving DEF OpenForm
<1>4. CASE OpenName(p)
  BY <1>4, Moving DEF OpenName, Holds
<1>5. CASE OpenFails(p) \/ \E place \in {"tui", "form", "named", "scan", "save"} : GiveUp(p, place)
  <2>1. Leave(p) /\ UNCHANGED <<file, temps, counts>>
    BY <1>5 DEF OpenFails, GiveUp
  <2> QED BY <2>1, Moving DEF Leave, Holds
<1>6. CASE Lookup(p)
  <2>1. PICK k \in DOMAIN file.hosts : idx' = [idx EXCEPT ![p] = k]
    BY <1>6 DEF Lookup
  <2>2. Holds(p)'
    BY <1>6, <2>1 DEF Lookup, Holds
  <2> QED BY <1>6, <2>1, <2>2, Moving DEF Lookup
<1> QED BY <1>1, <1>2, <1>3, <1>4, <1>5, <1>6

LEMMA AnswerTyped == ASSUME TInv, NEW p \in Procs, Answer(p) PROVE TInv'
<1>1. /\ mem'[p] \in Inventories /\ mem' = [mem EXCEPT ![p] = mem'[p]]
      /\ \A k \in DOMAIN mem'[p].hosts : BlocksFit(mem'[p].hosts[k])
  BY AnswerMem
<1>2. /\ UNCHANGED <<file, temps, act, tmp, counts>>
      /\ pc' = [pc EXCEPT ![p] = "save"] /\ idx' = [idx EXCEPT ![p] = 1]
  BY DEF Answer, From
<1>3. Typed'
  BY <1>1, <1>2 DEF TInv, Typed, counts, Places
<1>4. Holds(p)'
  BY <1>1, <1>2 DEF TInv, Typed, Holds
<1>5. \A q \in Procs \ {p} : pc'[q] = pc[q] /\ mem'[q] = mem[q] /\ act'[q] = act[q] /\ idx'[q] = idx[q]
  BY <1>1, <1>2 DEF TInv, Typed
<1> QED BY <1>3, <1>4, <1>5, Moving

LEMMA ScanTyped == ASSUME TInv, NEW p \in Procs, Scan(p) PROVE TInv'
<1> DEFINE m == mem[p]
<1>1. PICK d \in Drivers : mem' = [mem EXCEPT ![p].hosts[idx[p]].ups = d]
  BY DEF Scan
<1>2. /\ UNCHANGED <<file, temps, act, idx, tmp, counts>>
      /\ pc[p] = "scan" /\ pc' = [pc EXCEPT ![p] = "save"]
  BY DEF Scan, From
<1>3. m \in Inventories \cup {NoFile} /\ Loads(m) /\ idx[p] \in DOMAIN m.hosts
  BY <1>2 DEF TInv, Typed, Holds
<1>4. /\ m \in Inventories /\ m.hosts \in Seq(Hosts)
      /\ DOMAIN m.hosts = 1 .. Len(m.hosts)
      /\ \A k \in DOMAIN m.hosts : m.hosts[k] \in Hosts /\ BlocksFit(m.hosts[k])
  BY <1>3, LoadedType
<1> DEFINE h == [m.hosts[idx[p]] EXCEPT !.ups = d]
           hs == [m.hosts EXCEPT ![idx[p]] = h]
<1>5. h \in Hosts /\ BlocksFit(h)
  <2>1. m.hosts[idx[p]] \in Hosts /\ BlocksFit(m.hosts[idx[p]]) /\ d # None
    BY <1>1, <1>3, <1>4, FormAssumption
  <2> QED BY <2>1 DEF Hosts, BlocksFit
<1>6. mem' = [mem EXCEPT ![p].hosts = hs]
  BY <1>1 DEF TInv, Typed
<1> HIDE DEF h
<1>7. hs \in Seq(Hosts) /\ DOMAIN hs = DOMAIN m.hosts
      /\ \A k \in DOMAIN hs : hs[k] = IF k = idx[p] THEN h ELSE m.hosts[k]
  BY <1>3, <1>4, <1>5, ExceptSeq
<1> HIDE DEF hs
<1>8. mem'[p] \in Inventories /\ mem'[p].hosts = hs /\ mem' = [mem EXCEPT ![p] = mem'[p]]
  <2>1. [m EXCEPT !.hosts = hs] \in Inventories /\ [m EXCEPT !.hosts = hs].hosts = hs
    BY <1>4, <1>7, WithHosts
  <2>2. mem'[p] = [m EXCEPT !.hosts = hs] /\ mem' = [mem EXCEPT ![p] = mem'[p]]
    BY <1>6 DEF TInv, Typed
  <2> QED BY <2>1, <2>2
<1>9. \A k \in DOMAIN hs : BlocksFit(hs[k])
  BY <1>4, <1>5, <1>7
<1>10. Typed'
  BY <1>2, <1>8 DEF TInv, Typed, counts, Places
<1>11. Holds(p)'
  BY <1>2, <1>8, <1>9 DEF TInv, Typed, Holds
<1>12. \A q \in Procs \ {p} : pc'[q] = pc[q] /\ mem'[q] = mem[q] /\ act'[q] = act[q] /\ idx'[q] = idx[q]
  BY <1>2, <1>8 DEF TInv, Typed
<1> QED BY <1>10, <1>11, <1>12, Moving

\* The steps of a save.
LEMMA SaveTyped ==
  ASSUME TInv, IInv, NEW p \in Procs, Create(p) \/ Write(p) \/ WriteFails(p) \/ Save(p) \/ Kill(p)
  PROVE  TInv'
<1> USE DEF TInv, Typed, counts, From, Places
<1>1. CASE Create(p)
  <2>1. PICK n \in TempNames : /\ temps' = [temps EXCEPT ![n] = Partial]
                               /\ tmp' = [tmp EXCEPT ![p] = n]
    BY <1>1 DEF Create
  <2> QED BY <1>1, <2>1, Moving DEF Create, Holds
<1>2. CASE Write(p)
  BY <1>2, Moving DEF Write, Holds, progVars
<1>3. CASE WriteFails(p)
  BY <1>3, Moving DEF WriteFails, Leave, Holds
<1>4. CASE Save(p)
  <2>1. /\ file' = temps[tmp[p]] /\ temps' = [temps EXCEPT ![tmp[p]] = NoFile]
        /\ UNCHANGED counts /\ pc[p] = "full"
    BY <1>4 DEF Save, Rename
  <2>2. temps[tmp[p]] \in Inventories
    <3>1. temps[tmp[p]] = mem[p] /\ Loads(mem[p])
      BY <2>1 DEF IInv, Owned, Writing
    <3> QED BY <3>1, LoadedType
  <2>3. CASE act[p] \in {"add", "edit"} /\ From(p, "full", "named")
    BY <1>4, <2>1, <2>2, <2>3, Moving DEF Save, Leave, Holds
  <2>4. CASE act[p] \notin {"add", "edit"} /\ Leave(p)
    BY <1>4, <2>1, <2>2, <2>4, Moving DEF Save, Leave, Holds
  <2> QED BY <1>4, <2>3, <2>4 DEF Save
<1>5. CASE Kill(p)
  <2>1. crashes' \in 0 .. MaxCrashes
    BY <1>5, BoundAssumption DEF Kill
  <2> QED BY <1>5, <2>1, Moving DEF Kill, Leave, Holds
<1> QED BY <1>1, <1>2, <1>3, <1>4, <1>5

LEMMA NextTInv == TInv /\ IInv /\ [Next]_vars => TInv'
<1> SUFFICES ASSUME TInv, IInv, [Next]_vars PROVE TInv'
  OBVIOUS
<1>1. ASSUME NEW p \in Procs, Step(p) PROVE TInv'
  BY <1>1, LocalTyped, AnswerTyped, ScanTyped, SaveTyped DEF Step
<1>2. CASE EditByHand
  <2>1. file' \in Inventories /\ drafts' \in 0 .. MaxDrafts
    BY <1>2, ContentAssumption, BoundAssumption DEF EditByHand, TInv, Typed
  <2> QED BY <1>2, <2>1 DEF EditByHand, progVars, TInv, Typed, Holds
<1>3. CASE UNCHANGED vars
  BY <1>3 DEF vars, progVars, counts, TInv, Typed, Holds
<1> QED BY <1>1, <1>2, <1>3 DEF Next

\* Types; a form and a scan are about a host of the inventory in memory; what a
\* program is about to save has the blocks that its roles need (runEditHost,
\* runDetect, collectRoleDetails).
THEOREM Typing == Spec => []TypeOK
<1>1. TInv => TypeOK
  BY DEF TInv, Typed, Holds, TypeOK
<1> QED BY <1>1, InitTInv, NextTInv, Invariance, PTL DEF Spec
=============================================================================
